---- MODULE Spec2Model ----
(***************************************************************************)
(* CuDNN3DConvolutionComponent (nnet3/nnet-cudnn-simple-component.cc):     *)
(* a trainable 3-D convolution layer.  The module models the component's   *)
(* fields, its descriptors, its parameter tensors and the operations the   *)
(* network executor calls on it.  BaseFloat values are modelled by         *)
(* integers; a dense matrix is a record [rows, cols, data] whose data is   *)
(* the row-major buffer with stride equal to the number of columns.        *)
(***************************************************************************)
EXTENDS Integers, Sequences, FiniteSets, TLC

(***************************************************************************)
(* Bounds of the model.                                                    *)
(***************************************************************************)
MaxExtent == 2
MaxInputDim == 2
MaxFiltDim == 2
MaxStep == 2
MaxPad == 1
MaxUpscale == 2
MaxChannels == 2
MaxFilters == 2
MaxSeed == 1
MaxStddev == 1
MaxAlpha == 2
MaxBatch == 2
MaxMutations == 2
MaxInits == 2
MaxWorkspace == 1

(***************************************************************************)
(* TensorVectorizationType, and the dimension of the convolution.          *)
(***************************************************************************)
kZyx == 0
kYzx == 1
kConvolutionDimension_ == 3

(***************************************************************************)
(* Arithmetic helpers.                                                     *)
(***************************************************************************)
RECURSIVE Product(_)
Product(s) == IF s = <<>> THEN 1 ELSE Head(s) * Product(Tail(s))

RECURSIVE SumSeq(_)
SumSeq(s) == IF s = <<>> THEN 0 ELSE Head(s) + SumSeq(Tail(s))

(***************************************************************************)
(* The stride fillers.  shape is <<N, C, X, Y, Z>> (shape[1] of the source *)
(* is shape[2] here: TLA+ sequences start at 1).                           *)
(***************************************************************************)
array_strides_NXYZC(shape) ==
  << shape[2] * shape[3] * shape[4] * shape[5],
     1,
     shape[2] * shape[4] * shape[5],
     shape[2] * shape[5],
     shape[2] >>

array_strides_NXZYC(shape) ==
  << shape[2] * shape[3] * shape[4] * shape[5],
     1,
     shape[2] * shape[4] * shape[5],
     shape[2],
     shape[2] * shape[4] >>

array_strides_NCXYZ(shape) ==
  << shape[2] * shape[3] * shape[4] * shape[5],
     shape[3] * shape[4] * shape[5],
     shape[4] * shape[5],
     shape[5],
     1 >>

array_strides_NCXZY_swapped(shape) ==
  << shape[2] * shape[3] * shape[4] * shape[5],
     shape[3] * shape[4] * shape[5],
     shape[4] * shape[5],
     1,
     shape[5] >>

array_strides_NCXZY(shape) ==
  << shape[2] * shape[3] * shape[4] * shape[5],
     shape[3] * shape[4] * shape[5],
     shape[4] * shape[5],
     1,
     shape[4] >>

(***************************************************************************)
(* The result of an operation that may end in a fatal error (KALDI_ERR,    *)
(* KALDI_ASSERT, CUDNN_SAFE_CALL): the value it has built so far and the   *)
(* error, "" when there is none.                                           *)
(***************************************************************************)
Ok(v) == [val |-> v, err |-> ""]
Fail(v, e) == [val |-> v, err |-> e]

FillInputStrides_lenient(input_vectorization, shape) ==
  IF input_vectorization = kZyx THEN Ok(array_strides_NCXYZ(shape))
  ELSE Ok(array_strides_NCXZY(shape))

\* FillInputStrides: the strides of the configured activation order.
FillInputStrides(input_vectorization, shape) ==
  IF input_vectorization = kZyx THEN Ok(array_strides_NCXYZ(shape))
  ELSE IF input_vectorization = kYzx THEN Ok(array_strides_NCXZY(shape))
  ELSE Fail(<<>>, "Unknown or unsupported input vectorization order")

FillOutputStrides_NCXYZ(shape) == array_strides_NCXYZ(shape)

\* FillOutputStrides: the strides of the output tensor, whatever the order.
FillOutputStrides(shape) == array_strides_NXYZC(shape)

(***************************************************************************)
(* Dense matrices and vectors of the matrix library, as the component      *)
(* uses them.  Element (r, c) of matrix m, counted from 1, is              *)
(* m.data[r][c]; in memory the rows follow each other without gaps         *)
(* (kStrideEqualNumCols).                                                  *)
(***************************************************************************)
EmptyMat == [rows |-> 0, cols |-> 0, data |-> <<>>]

\* The k-th value (k from 0) drawn from the normal generator seeded by seed.
\* The draws are even numbers, so that half a draw is a whole number too.
Randn(seed, k) == 2 * (((seed + k) % 3) - 1)

\* Resize(rows, cols, kUndefined, kStrideEqualNumCols): the matrix library
\* rejects negative sizes and a matrix with exactly one of the sizes zero.
ResizeOk(rows, cols) ==
  /\ rows >= 0
  /\ cols >= 0
  /\ (rows * cols = 0 => rows = 0 /\ cols = 0)

\* A rows x cols matrix whose entry (r, c) is f[r][c].
MatOf(rows, cols, f) ==
  [rows |-> rows, cols |-> cols,
   data |-> [r \in 1..rows |-> [c \in 1..cols |-> f[r][c]]]]

\* SetRandn fills the buffer in memory order.
MatSetRandn(rows, cols, seed) ==
  [rows |-> rows, cols |-> cols,
   data |-> [r \in 1..rows |-> [c \in 1..cols |-> Randn(seed, (r - 1) * cols + (c - 1))]]]

VecSetRandn(dim, seed) == [k \in 1..dim |-> Randn(seed, k - 1)]

MatScale(m, alpha) ==
  [m EXCEPT !.data = [r \in 1..m.rows |-> [c \in 1..m.cols |-> alpha * m.data[r][c]]]]

VecScale(v, alpha) == [k \in 1..Len(v) |-> alpha * v[k]]

SameDim(a, b) == a.rows = b.rows /\ a.cols = b.cols

\* AddMat(alpha, other): this += alpha * other, element by element.
MatAddMat(m, alpha, other) ==
  [m EXCEPT !.data = [r \in 1..m.rows |->
                        [c \in 1..m.cols |-> m.data[r][c] + alpha * other.data[r][c]]]]

VecAddVec(v, alpha, other) == [k \in 1..Len(v) |-> v[k] + alpha * other[k]]

MatSetZero(m) == [m EXCEPT !.data = [r \in 1..m.rows |-> [c \in 1..m.cols |-> 0]]]

VecSetZero(v) == [k \in 1..Len(v) |-> 0]

\* mat.Range(0, rows, 0, cols) copied into a matrix of that size.
MatRange(mat, rows, cols) ==
  [rows |-> rows, cols |-> cols,
   data |-> [r \in 1..rows |-> [c \in 1..cols |-> mat.data[r][c]]]]

\* CopyColFromMat(mat, col): column col (from 0) of mat.
MatCol(mat, col) == [r \in 1..mat.rows |-> mat.data[r][col + 1]]

\* CopyRowsFromMat: the rows of m one after the other.
CopyRowsFromMat(m) ==
  [k \in 1..(m.rows * m.cols) |-> m.data[((k - 1) \div m.cols) + 1][((k - 1) % m.cols) + 1]]

\* CopyRowsFromVec: m refilled row by row from v, which has rows * cols entries.
CopyRowsFromVec(m, v) ==
  [m EXCEPT !.data = [r \in 1..m.rows |-> [c \in 1..m.cols |-> v[(r - 1) * m.cols + c]]]]

\* v.Range(offset, dim): dim entries of v from offset (from 0).
VecRange(v, offset, dim) == [k \in 1..dim |-> v[offset + k]]

\* TraceMatMat(a, b, kTrans): the sum of the elementwise products.
TraceMatMat(a, b) ==
  SumSeq([k \in 1..(a.rows * a.cols) |-> CopyRowsFromMat(a)[k] * CopyRowsFromMat(b)[k]])

VecVec(a, b) == SumSeq([k \in 1..Len(a) |-> a[k] * b[k]])

(***************************************************************************)
(* The descriptors of the convolution primitive.  A created descriptor     *)
(* that has not been set holds no dimensions.                              *)
(***************************************************************************)
UnsetFilterDesc == [set |-> FALSE, dims |-> <<>>]
UnsetTensorDesc == [set |-> FALSE, dims |-> <<>>, strides |-> <<>>]
UnsetConvDesc == [set |-> FALSE, pad |-> <<>>, stride |-> <<>>, upscale |-> <<>>]

AllPositive(s) == \A k \in 1..Len(s) : s[k] >= 1
AllNonNegative(s) == \A k \in 1..Len(s) : s[k] >= 0

\* cudnnSetFilterNdDescriptor: every dimension must be positive.
SetFilterNdDescriptor(dims) ==
  IF AllPositive(dims) THEN Ok([set |-> TRUE, dims |-> dims])
  ELSE Fail(UnsetFilterDesc, "CUDNN_STATUS_BAD_PARAM")

\* cudnnSetConvolutionNdDescriptor: padding >= 0, stride and upscale >= 1.
SetConvolutionNdDescriptor(pad, stride, upscale) ==
  IF AllNonNegative(pad) /\ AllPositive(stride) /\ AllPositive(upscale)
  THEN Ok([set |-> TRUE, pad |-> pad, stride |-> stride, upscale |-> upscale])
  ELSE Fail(UnsetConvDesc, "CUDNN_STATUS_BAD_PARAM")

\* cudnnSetTensorNdDescriptor: every dimension and stride must be positive.
SetTensorNdDescriptor(dims, strides) ==
  IF AllPositive(dims) /\ AllPositive(strides)
  THEN Ok([set |-> TRUE, dims |-> dims, strides |-> strides])
  ELSE Fail(UnsetTensorDesc, "CUDNN_STATUS_BAD_PARAM")

\* The extent of the kernel on one axis once dilated by the upscale factor.
DilatedExtent(filt, upscale) == (filt - 1) * upscale + 1

\* cudnnGetConvolutionNdForwardOutputDim: the primitive's shape inference.
\* It rejects descriptors that are not set, an input whose channel count is
\* not the filter's, and a dilated kernel larger than the padded input.
GetConvolutionNdForwardOutputDim(conv, in_desc, filt) ==
  IF ~(conv.set /\ in_desc.set /\ filt.set)
  THEN Fail(<<>>, "CUDNN_STATUS_BAD_PARAM")
  ELSE IF in_desc.dims[2] # filt.dims[2]
  THEN Fail(<<>>, "CUDNN_STATUS_BAD_PARAM")
  ELSE IF \E a \in 1..kConvolutionDimension_ :
            DilatedExtent(filt.dims[a + 2], conv.upscale[a])
              > in_desc.dims[a + 2] + 2 * conv.pad[a]
  THEN Fail(<<>>, "CUDNN_STATUS_BAD_PARAM")
  ELSE Ok(<< in_desc.dims[1], filt.dims[1] >> \o
          [a \in 1..kConvolutionDimension_ |->
             1 + (in_desc.dims[a + 2] + 2 * conv.pad[a]
                  - DilatedExtent(filt.dims[a + 2], conv.upscale[a]))
                 \div conv.stride[a]])

(***************************************************************************)
(* The component.                                                          *)
(***************************************************************************)
\* CuDNN3DConvolutionComponent(): the default constructor.  handles_ counts
\* the descriptor handles of each kind that were created for the component
\* and have not been destroyed; the constructor creates one of each.
DefaultComponent ==
  [ alive |-> TRUE,
    input_x_dim_ |-> 0, input_y_dim_ |-> 0, input_z_dim_ |-> 0,
    input_num_filters_ |-> 0, num_filters_ |-> 0,
    filter_params_ |-> EmptyMat, bias_params_ |-> <<>>,
    work_space_ |-> 0, work_space_size_ |-> 0,
    is_gradient_ |-> FALSE, input_vectorization_ |-> kZyx,
    learning_rate_ |-> 1,
    filter_desc_ |-> UnsetFilterDesc,
    bias_desc_ |-> UnsetTensorDesc,
    conv_desc_ |-> UnsetConvDesc,
    forward_algo_ |-> "CUDNN_CONVOLUTION_FWD_ALGO_IMPLICIT_GEMM",
    backward_filter_algo_ |-> "CUDNN_CONVOLUTION_BWD_FILTER_ALGO_0",
    backward_data_algo_ |-> "CUDNN_CONVOLUTION_BWD_DATA_ALGO_0",
    handles_ |-> [filter |-> 1, bias |-> 1, conv |-> 1] ]

\* A slot that holds no component (before construction).
NoComponent ==
  [DefaultComponent EXCEPT !.alive = FALSE,
                           !.handles_ = [filter |-> 0, bias |-> 0, conv |-> 0]]

\* InitDescriptor: sets the filter, convolution and bias descriptors from the
\* component's channel counts and the filter specification.  filt, stride,
\* pad and upscale are <<x, y, z>> triples.  No call it makes is given the
\* input extents.  It begins by creating a filter descriptor: filter_desc_
\* is now the new handle, which nothing has been set on, and the handle it
\* was is still to be destroyed.
InitDescriptor(c, filt, stride, pad, upscale) ==
  LET c0 == [c EXCEPT !.handles_.filter = @ + 1, !.filter_desc_ = UnsetFilterDesc]
      fd == SetFilterNdDescriptor(
              << c.num_filters_, c.input_num_filters_, filt[1], filt[2], filt[3] >>)
      c1 == [c0 EXCEPT !.filter_desc_ = fd.val]
      cd == SetConvolutionNdDescriptor(pad, stride, upscale)
      c2 == [c1 EXCEPT !.conv_desc_ = cd.val]
      bias_dims == << 1, c.num_filters_, 1, 1, 1 >>
      bs == FillInputStrides(c.input_vectorization_, bias_dims)
      bd == SetTensorNdDescriptor(bias_dims, bs.val)
  IN  IF fd.err # "" THEN Fail(c0, fd.err)
      ELSE IF cd.err # "" THEN Fail(c1, cd.err)
      ELSE IF bs.err # "" THEN Fail(c2, bs.err)
      ELSE IF bd.err # "" THEN Fail(c2, bd.err)
      ELSE Ok([c2 EXCEPT !.bias_desc_ = bd.val])

\* The shape fields Init stores before it touches the parameters.
SetShape(c, cfg, num_filters) ==
  [c EXCEPT !.input_x_dim_ = cfg.in[1],
            !.input_y_dim_ = cfg.in[2],
            !.input_z_dim_ = cfg.in[3],
            !.input_num_filters_ = cfg.input_num_filters,
            !.num_filters_ = num_filters,
            !.input_vectorization_ = cfg.vec]

\* filter_dim of both Init overloads: the number of columns of filter_params_.
FilterDim(cfg) == cfg.input_num_filters * cfg.filt[1] * cfg.filt[2] * cfg.filt[3]

\* Init(..., num_filters, ..., param_stddev, bias_stddev): random parameters.
\* param_stddev is the fraction num / den (den >= 1), for the default of
\* InitFromConfig is not a whole number; bias_stddev is a whole number.
\* seed names the values the normal generator draws.  Resize(kUndefined)
\* gives storage of the requested size whose contents are whatever the
\* allocation holds: junk names that value, which the parameters keep until
\* the draws overwrite them.
InitRandomOp(c, cfg, param_stddev, bias_stddev, seed, junk) ==
  LET c1 == SetShape(c, cfg, cfg.num_filters)
      filter_dim == FilterDim(cfg)
      rows == c1.num_filters_
      c2 == [c1 EXCEPT
               !.filter_params_ =
                 [rows |-> rows, cols |-> filter_dim,
                  data |-> [r \in 1..rows |-> [k \in 1..filter_dim |-> junk]]],
               !.bias_params_ = [k \in 1..rows |-> junk]]
      scaled == MatScale(MatSetRandn(rows, filter_dim, seed), param_stddev.num)
      c3 == [c2 EXCEPT
               !.filter_params_ =
                 [scaled EXCEPT !.data =
                    [r \in 1..rows |->
                       [k \in 1..filter_dim |-> scaled.data[r][k] \div param_stddev.den]]],
               !.bias_params_ =
                 VecScale(VecSetRandn(rows, seed + rows * filter_dim), bias_stddev)]
  IN  IF ~ResizeOk(rows, filter_dim) THEN Fail(c1, "KALDI_ASSERT: Resize")
      ELSE IF ~(param_stddev.num >= 0 /\ bias_stddev >= 0)
      THEN Fail(c2, "KALDI_ASSERT: param_stddev >= 0.0 && bias_stddev >= 0.0")
      ELSE InitDescriptor(c3, cfg.filt, cfg.step, cfg.pad, cfg.upscale)

\* Init(..., matrix_filename): parameters from the matrix the file holds; its
\* last column is the bias.
InitMatrixOp(c, cfg, mat) ==
  LET c1 == SetShape(c, cfg, mat.rows)
      filter_dim == FilterDim(cfg)
      c2 == [c1 EXCEPT !.filter_params_ = MatRange(mat, c1.num_filters_, filter_dim),
                       !.bias_params_ = MatCol(mat, filter_dim)]
  IN  IF mat.cols # filter_dim + 1
      THEN Fail(c1, "KALDI_ASSERT: mat.NumCols() == (filter_dim + 1)")
      ELSE IF ~ResizeOk(c1.num_filters_, filter_dim) THEN Fail(c1, "KALDI_ASSERT: Resize")
      ELSE InitDescriptor(c2, cfg.filt, cfg.step, cfg.pad, cfg.upscale)

\* GetOutputDims: the output extents <<x, y, z>> the primitive infers for one
\* example of the component's input shape.
GetOutputDims(c) ==
  LET input_dims == << 1, c.input_num_filters_,
                       c.input_x_dim_, c.input_y_dim_, c.input_z_dim_ >>
      st == FillInputStrides(c.input_vectorization_, input_dims)
      in_desc == SetTensorNdDescriptor(input_dims, st.val)
      od == GetConvolutionNdForwardOutputDim(c.conv_desc_, in_desc.val, c.filter_desc_)
  IN  IF st.err # "" THEN Fail(<<>>, st.err)
      ELSE IF in_desc.err # "" THEN Fail(<<>>, in_desc.err)
      ELSE IF od.err # "" THEN Fail(<<>>, od.err)
      ELSE IF od.val[1] # 1 THEN Fail(<<>>, "KALDI_ASSERT: output_dims[0] == 1")
      ELSE IF od.val[2] # c.num_filters_
      THEN Fail(<<>>, "KALDI_ASSERT: output_dims[1] == num_filters_")
      ELSE Ok(<< od.val[3], od.val[4], od.val[5] >>)

OutputDim_spatialOnly(c) ==
  LET od == GetOutputDims(c)
  IN  IF od.err # "" THEN Fail(0, od.err)
      ELSE Ok(Product(od.val))

\* OutputDim: the number of columns of an output row.
OutputDim(c) ==
  LET od == GetOutputDims(c)
  IN  IF od.err # "" THEN Fail(0, od.err)
      ELSE Ok(c.num_filters_ * Product(od.val))

NumParameters_noBias(c) == c.filter_params_.cols * c.filter_params_.rows

\* NumParameters: the number of filter and bias entries.
NumParameters(c) ==
  c.filter_params_.cols * c.filter_params_.rows + Len(c.bias_params_)

(***************************************************************************)
(* The operations on the parameters.                                       *)
(***************************************************************************)
ScaleOp(c, scale) ==
  [c EXCEPT !.filter_params_ = MatScale(c.filter_params_, scale),
            !.bias_params_ = VecScale(c.bias_params_, scale)]

\* Add(alpha, other) once the cast of other has succeeded.  AddMat and AddVec
\* of the matrix library assert that the sizes agree.
AddOp(c, alpha, other) ==
  IF ~SameDim(c.filter_params_, other.filter_params_)
  THEN Fail(c, "KALDI_ASSERT: AddMat dimensions")
  ELSE IF Len(c.bias_params_) # Len(other.bias_params_)
  THEN Fail([c EXCEPT !.filter_params_ =
                        MatAddMat(c.filter_params_, alpha, other.filter_params_)],
            "KALDI_ASSERT: AddVec dimensions")
  ELSE Ok([c EXCEPT !.filter_params_ =
                      MatAddMat(c.filter_params_, alpha, other.filter_params_),
                    !.bias_params_ = VecAddVec(c.bias_params_, alpha, other.bias_params_)])

\* UpdatableComponent::SetActualLearningRate.
SetActualLearningRate(c, lrate) == [c EXCEPT !.learning_rate_ = lrate]

SetZeroOp_alwaysGradient(c, treat_as_gradient) ==
  LET c1 == [SetActualLearningRate(c, 1) EXCEPT !.is_gradient_ = TRUE]
  IN  [c1 EXCEPT !.filter_params_ = MatSetZero(c1.filter_params_),
                 !.bias_params_ = VecSetZero(c1.bias_params_)]

SetZeroOp(c, treat_as_gradient) ==
  LET c1 == IF treat_as_gradient
            THEN [SetActualLearningRate(c, 1) EXCEPT !.is_gradient_ = TRUE]
            ELSE c
  IN  [c1 EXCEPT !.filter_params_ = MatSetZero(c1.filter_params_),
                 !.bias_params_ = VecSetZero(c1.bias_params_)]

\* DotProduct(other) once other is known to be of the component's type.
DotProductOp(c, other) ==
  IF ~SameDim(c.filter_params_, other.filter_params_)
     \/ Len(c.bias_params_) # Len(other.bias_params_)
  THEN Fail(0, "KALDI_ASSERT: TraceMatMat dimensions")
  ELSE Ok(TraceMatMat(c.filter_params_, other.filter_params_)
          + VecVec(c.bias_params_, other.bias_params_))

VectorizeOp_biasFirst(c, dim) ==
  IF dim # NumParameters(c)
  THEN Fail(<<>>, "KALDI_ASSERT: params->Dim() == this->NumParameters()")
  ELSE Ok(c.bias_params_ \o CopyRowsFromMat(c.filter_params_))

\* Vectorize into a vector of dim entries: the vector's new contents.
VectorizeOp(c, dim) ==
  IF dim # NumParameters(c)
  THEN Fail(<<>>, "KALDI_ASSERT: params->Dim() == this->NumParameters()")
  ELSE Ok(CopyRowsFromMat(c.filter_params_) \o c.bias_params_)

\* UnVectorize(params).
UnVectorizeOp(c, params) ==
  LET num_filter_params == c.filter_params_.cols * c.filter_params_.rows
  IN  IF Len(params) # NumParameters(c)
      THEN Fail(c, "KALDI_ASSERT: params.Dim() == this->NumParameters()")
      ELSE Ok([c EXCEPT
                 !.filter_params_ =
                   CopyRowsFromVec(c.filter_params_, VecRange(params, 0, num_filter_params)),
                 !.bias_params_ =
                   VecRange(params, num_filter_params, Len(c.bias_params_))])

\* PerturbParams(stddev): adds stddev times fresh normal values.
PerturbParamsOp(c, stddev, seed) ==
  LET rows == c.filter_params_.rows
      cols == c.filter_params_.cols
  IN  [c EXCEPT
         !.filter_params_ = MatAddMat(c.filter_params_, stddev, MatSetRandn(rows, cols, seed)),
         !.bias_params_ =
           VecAddVec(c.bias_params_, stddev,
                     VecSetRandn(Len(c.bias_params_), seed + rows * cols))]

CopyOp_dropGradientFlag(c, buf) ==
  [c EXCEPT !.work_space_ = IF c.work_space_size_ # 0 THEN buf ELSE 0,
            !.is_gradient_ = FALSE,
            !.handles_ = [filter |-> 1, bias |-> 1, conv |-> 1]]

\* The copy constructor, member by member.  The parameters are copied (the
\* matrix and vector copy constructors allocate their own storage), the
\* descriptors are new handles set to the original's contents, and the
\* workspace is not shared: a buffer of the same size is allocated when the
\* original has one.  buf names the new buffer.
CopyOp(c, buf) ==
  [ alive |-> TRUE,
    learning_rate_ |-> c.learning_rate_,
    input_x_dim_ |-> c.input_x_dim_, input_y_dim_ |-> c.input_y_dim_,
    input_z_dim_ |-> c.input_z_dim_,
    input_num_filters_ |-> c.input_num_filters_,
    filter_params_ |-> c.filter_params_,
    bias_params_ |-> c.bias_params_,
    num_filters_ |-> c.num_filters_,
    work_space_ |-> IF c.work_space_size_ # 0 THEN buf ELSE 0,
    work_space_size_ |-> c.work_space_size_,
    is_gradient_ |-> c.is_gradient_,
    input_vectorization_ |-> c.input_vectorization_,
    filter_desc_ |-> c.filter_desc_,
    bias_desc_ |-> c.bias_desc_,
    conv_desc_ |-> c.conv_desc_,
    forward_algo_ |-> c.forward_algo_,
    backward_filter_algo_ |-> c.backward_filter_algo_,
    backward_data_algo_ |-> c.backward_data_algo_,
    handles_ |-> [filter |-> 1, bias |-> 1, conv |-> 1] ]

\* The destructor: the descriptor handles the component holds are destroyed,
\* and the workspace is freed when the pointer is not null.  The value is the
\* component that is left and the buffers given to Free.
DestroyOp(c) ==
  [ c |-> [c EXCEPT !.alive = FALSE,
                    !.handles_ = [filter |-> c.handles_.filter - 1,
                                  bias |-> c.handles_.bias - 1,
                                  conv |-> c.handles_.conv - 1],
                    !.work_space_ = 0],
    freed |-> IF c.work_space_ # 0 THEN << c.work_space_ >> ELSE <<>> ]

(***************************************************************************)
(* Serialization.  A stream is a sequence of items: a token, or a value    *)
(* written in the encoding of its type.  A bool is written as T (1) or     *)
(* F (0), a matrix as its two sizes followed by its rows, a vector as its  *)
(* size followed by its entries.                                           *)
(***************************************************************************)
Token(t) == [kind |-> "token", tok |-> t, val |-> <<>>]
WriteInt32(v) == [kind |-> "int32", tok |-> "", val |-> <<v>>]
WriteFloat(v) == [kind |-> "float", tok |-> "", val |-> <<v>>]
WriteBool(b) == [kind |-> "bool", tok |-> "", val |-> <<IF b THEN 1 ELSE 0>>]
WriteMatrix(m) ==
  [kind |-> "FM", tok |-> "", val |-> <<m.rows, m.cols>> \o CopyRowsFromMat(m)]
WriteVector(v) == [kind |-> "FV", tok |-> "", val |-> <<Len(v)>> \o v]

\* The value an item of the given type decodes to.
Decode(item) ==
  CASE item.kind = "int32" -> item.val[1]
    [] item.kind = "float" -> item.val[1]
    [] item.kind = "bool" -> (item.val[1] = 1)
    [] item.kind = "FM" ->
         MatOf(item.val[1], item.val[2],
               [r \in 1..item.val[1] |->
                  [c \in 1..item.val[2] |-> item.val[2 + (r - 1) * item.val[2] + c]]])
    [] item.kind = "FV" -> [k \in 1..item.val[1] |-> item.val[1 + k]]

\* WriteUpdatableCommon: the opening tag and the learning rate.
WriteUpdatableCommon(c) ==
  << Token("<CuDNN3DConvolutionComponent>"),
     Token("<LearningRate>"), WriteFloat(c.learning_rate_) >>

\* What Write has written when it reaches the checks on the filter descriptor.
WriteShape(c) ==
  WriteUpdatableCommon(c) \o
  << Token("<InputXDim>"), WriteInt32(c.input_x_dim_),
     Token("<InputYDim>"), WriteInt32(c.input_y_dim_),
     Token("<InputZDim>"), WriteInt32(c.input_z_dim_),
     Token("<InputNumFilters>"), WriteInt32(c.input_num_filters_),
     Token("<OutputNumFilters>"), WriteInt32(c.num_filters_) >>

WriteFilterSpec_padSwapped(c) ==
  LET filter_dims == c.filter_desc_.dims
      padding == c.conv_desc_.pad
      strides == c.conv_desc_.stride
      upscales == c.conv_desc_.upscale
  IN  << Token("<FilterXDim>"), WriteInt32(filter_dims[3]),
         Token("<FilterYDim>"), WriteInt32(filter_dims[4]),
         Token("<FilterZDim>"), WriteInt32(filter_dims[5]),
         Token("<FilterXPadding>"), WriteInt32(padding[2]),
         Token("<FilterYPadding>"), WriteInt32(padding[1]),
         Token("<FilterZPadding>"), WriteInt32(padding[3]),
         Token("<FilterXStride>"), WriteInt32(strides[1]),
         Token("<FilterYStride>"), WriteInt32(strides[2]),
         Token("<FilterZStride>"), WriteInt32(strides[3]),
         Token("<FilterXUpscale>"), WriteInt32(upscales[1]),
         Token("<FilterYUpscale>"), WriteInt32(upscales[2]),
         Token("<FilterZUpscale>"), WriteInt32(upscales[3]) >>

\* The kernel extents, padding, stride and upscale, read back from the live
\* filter and convolution descriptors.
WriteFilterSpec(c) ==
  LET filter_dims == c.filter_desc_.dims
      padding == c.conv_desc_.pad
      strides == c.conv_desc_.stride
      upscales == c.conv_desc_.upscale
  IN  << Token("<FilterXDim>"), WriteInt32(filter_dims[3]),
         Token("<FilterYDim>"), WriteInt32(filter_dims[4]),
         Token("<FilterZDim>"), WriteInt32(filter_dims[5]),
         Token("<FilterXPadding>"), WriteInt32(padding[1]),
         Token("<FilterYPadding>"), WriteInt32(padding[2]),
         Token("<FilterZPadding>"), WriteInt32(padding[3]),
         Token("<FilterXStride>"), WriteInt32(strides[1]),
         Token("<FilterYStride>"), WriteInt32(strides[2]),
         Token("<FilterZStride>"), WriteInt32(strides[3]),
         Token("<FilterXUpscale>"), WriteInt32(upscales[1]),
         Token("<FilterYUpscale>"), WriteInt32(upscales[2]),
         Token("<FilterZUpscale>"), WriteInt32(upscales[3]) >>

WriteParams_biasFirst(c) ==
  << Token("<InputVectorization>"), WriteInt32(c.input_vectorization_),
     Token("<BiasParams>"), WriteVector(c.bias_params_),
     Token("<FilterParams>"), WriteMatrix(c.filter_params_),
     Token("<IsGradient>"), WriteBool(c.is_gradient_),
     Token("</CuDNN3DConvolutionComponent>") >>

\* The vectorization order, the parameters, the gradient flag, the closing tag.
WriteParams(c) ==
  << Token("<InputVectorization>"), WriteInt32(c.input_vectorization_),
     Token("<FilterParams>"), WriteMatrix(c.filter_params_),
     Token("<BiasParams>"), WriteVector(c.bias_params_),
     Token("<IsGradient>"), WriteBool(c.is_gradient_),
     Token("</CuDNN3DConvolutionComponent>") >>

\* Write: the items written to the stream, and the error that ended the
\* writing if one did.
WriteOp(c) ==
  IF ~c.filter_desc_.set
  THEN Fail(WriteShape(c), "CUDNN_STATUS_BAD_PARAM")
  ELSE IF c.filter_desc_.dims[2] # c.input_num_filters_
  THEN Fail(WriteShape(c), "KALDI_ASSERT: filter_dims[1] == input_num_filters_")
  ELSE IF c.filter_desc_.dims[1] # c.num_filters_
  THEN Fail(WriteShape(c), "KALDI_ASSERT: filter_dims[0] == num_filters_")
  ELSE IF ~c.conv_desc_.set
  THEN Fail(WriteShape(c) \o SubSeq(WriteFilterSpec(c), 1, 6), "CUDNN_STATUS_BAD_PARAM")
  ELSE Ok(WriteShape(c) \o WriteFilterSpec(c) \o WriteParams(c))

\* The tokens Read expects, in order, each with the type of the value read
\* after it ("" when none is) and the field or local the value is stored in.
ReadSteps ==
  << [tag |-> "<CuDNN3DConvolutionComponent>", kind |-> "", dest |-> ""],
     [tag |-> "<LearningRate>", kind |-> "float", dest |-> "learning_rate_"],
     [tag |-> "<InputXDim>", kind |-> "int32", dest |-> "input_x_dim_"],
     [tag |-> "<InputYDim>", kind |-> "int32", dest |-> "input_y_dim_"],
     [tag |-> "<InputZDim>", kind |-> "int32", dest |-> "input_z_dim_"],
     [tag |-> "<InputNumFilters>", kind |-> "int32", dest |-> "input_num_filters_"],
     [tag |-> "<OutputNumFilters>", kind |-> "int32", dest |-> "num_filters_"],
     [tag |-> "<FilterXDim>", kind |-> "int32", dest |-> "filter_dims_2"],
     [tag |-> "<FilterYDim>", kind |-> "int32", dest |-> "filter_dims_3"],
     [tag |-> "<FilterZDim>", kind |-> "int32", dest |-> "filter_dims_4"],
     [tag |-> "<FilterXPadding>", kind |-> "int32", dest |-> "padding_0"],
     [tag |-> "<FilterYPadding>", kind |-> "int32", dest |-> "padding_1"],
     [tag |-> "<FilterZPadding>", kind |-> "int32", dest |-> "padding_2"],
     [tag |-> "<FilterXStride>", kind |-> "int32", dest |-> "strides_0"],
     [tag |-> "<FilterYStride>", kind |-> "int32", dest |-> "strides_1"],
     [tag |-> "<FilterZStride>", kind |-> "int32", dest |-> "strides_2"],
     [tag |-> "<FilterXUpscale>", kind |-> "int32", dest |-> "upscales_0"],
     [tag |-> "<FilterYUpscale>", kind |-> "int32", dest |-> "upscales_1"],
     [tag |-> "<FilterZUpscale>", kind |-> "int32", dest |-> "upscales_2"],
     [tag |-> "<InputVectorization>", kind |-> "int32", dest |-> "input_vectorization_"],
     [tag |-> "<FilterParams>", kind |-> "FM", dest |-> "filter_params_"],
     [tag |-> "<BiasParams>", kind |-> "FV", dest |-> "bias_params_"],
     [tag |-> "<IsGradient>", kind |-> "bool", dest |-> "is_gradient_"],
     [tag |-> "</CuDNN3DConvolutionComponent>", kind |-> "", dest |-> ""] >>

\* The locals of Read, before anything is read into them.
ReadLocals ==
  [ filter_dims_2 |-> 0, filter_dims_3 |-> 0, filter_dims_4 |-> 0,
    padding_0 |-> 0, padding_1 |-> 0, padding_2 |-> 0,
    strides_0 |-> 0, strides_1 |-> 0, strides_2 |-> 0,
    upscales_0 |-> 0, upscales_1 |-> 0, upscales_2 |-> 0 ]

\* One ExpectToken, and the read of the value after it.  pos is the
\* position of the next item of the stream: an item that is not the one
\* expected has been taken from the stream when the error is raised, and
\* at the end of the stream there is none to take.
ReadStep(st, is, step) ==
  IF st.err # "" THEN st
  ELSE IF st.pos > Len(is) THEN [st EXCEPT !.err = "ExpectToken"]
  ELSE IF ~(is[st.pos].kind = "token" /\ is[st.pos].tok = step.tag)
  THEN [st EXCEPT !.pos = st.pos + 1, !.err = "ExpectToken"]
  ELSE IF step.kind = "" THEN [st EXCEPT !.pos = st.pos + 1]
  ELSE IF st.pos + 1 > Len(is) THEN [st EXCEPT !.pos = st.pos + 1, !.err = "ReadBasicType"]
  ELSE IF is[st.pos + 1].kind # step.kind
  THEN [st EXCEPT !.pos = st.pos + 2, !.err = "ReadBasicType"]
  ELSE IF step.dest \in DOMAIN ReadLocals
  THEN [st EXCEPT !.pos = st.pos + 2,
                  !.loc = [st.loc EXCEPT ![step.dest] = Decode(is[st.pos + 1])]]
  ELSE [st EXCEPT !.pos = st.pos + 2,
                  !.c = [st.c EXCEPT ![step.dest] = Decode(is[st.pos + 1])]]

RECURSIVE ReadSeq(_, _, _, _)
ReadSeq(st, is, steps, k) ==
  IF k > Len(steps) THEN st
  ELSE ReadSeq(ReadStep(st, is, steps[k]), is, steps, k + 1)

\* The reads of Read, up to its call of InitDescriptor.
ReadParse(c, is) ==
  ReadSeq([c |-> c, loc |-> ReadLocals, pos |-> 1, err |-> ""], is, ReadSteps, 1)

\* Read: the component after reading the stream is, and the error if any.
ReadOp(c, is) ==
  LET st == ReadParse(c, is)
      l == st.loc
  IN  IF st.err # "" THEN Fail(st.c, st.err)
      ELSE InitDescriptor(st.c,
                          << l.filter_dims_2, l.filter_dims_3, l.filter_dims_4 >>,
                          << l.strides_0, l.strides_1, l.strides_2 >>,
                          << l.padding_0, l.padding_1, l.padding_2 >>,
                          << l.upscales_0, l.upscales_1, l.upscales_2 >>)

(***************************************************************************)
(* The convolution primitive.  A tensor is a buffer (the Data() of a       *)
(* matrix whose stride is its number of columns: its rows one after the    *)
(* other) read through a descriptor: element idx = <<n, c, x, y, z>>,      *)
(* counted from 0, is at offset sum idx[k] * strides[k].                   *)
(***************************************************************************)
Offset(strides, idx) == SumSeq([k \in 1..5 |-> idx[k] * strides[k]])

\* The indices of a tensor of the given dimensions.
IndexSet(dims) ==
  { <<n, c, x, y, z>> : n \in 0..(dims[1] - 1), c \in 0..(dims[2] - 1),
                        x \in 0..(dims[3] - 1), y \in 0..(dims[4] - 1),
                        z \in 0..(dims[5] - 1) }

\* The index stored at offset p of a tensor with descriptor desc.
IndexAt(desc, p) == CHOOSE idx \in IndexSet(desc.dims) : Offset(desc.strides, idx) = p

Elem(desc, data, idx) == data[Offset(desc.strides, idx) + 1]

InRange(desc, idx) == \A k \in 1..5 : idx[k] >= 0 /\ idx[k] < desc.dims[k]

\* Element idx of a tensor padded with zeros on every side.
PaddedElem(desc, data, idx) == IF InRange(desc, idx) THEN Elem(desc, data, idx) ELSE 0

\* Column q (from 0) of the filter matrix holds the weight of input channel c
\* and kernel offset (i, j, l): the filter tensor is packed [K, C, X, Y, Z].
KernelIndex(fdims, q) ==
  << q \div (fdims[3] * fdims[4] * fdims[5]),
     (q \div (fdims[4] * fdims[5])) % fdims[3],
     (q \div fdims[5]) % fdims[4],
     q % fdims[5] >>

\* The input position that output position o meets under kernel offset ker.
InputIndex(conv, n, ker, o) ==
  << n, ker[1],
     o[1] * conv.stride[1] - conv.pad[1] + ker[2] * conv.upscale[1],
     o[2] * conv.stride[2] - conv.pad[2] + ker[3] * conv.upscale[2],
     o[3] * conv.stride[3] - conv.pad[3] + ker[4] * conv.upscale[3] >>

\* cudnnConvolutionForward with alpha = beta = 1 (cross-correlation): the
\* output buffer after the call.
ConvolutionForward(in_desc, in_data, filt, w, conv, out_desc, out_data) ==
  [p \in 1..Len(out_data) |->
     LET idx == IndexAt(out_desc, p - 1)
     IN  out_data[p] +
         SumSeq([q \in 1..w.cols |->
                   PaddedElem(in_desc, in_data,
                              InputIndex(conv, idx[1], KernelIndex(filt.dims, q - 1),
                                         << idx[3], idx[4], idx[5] >>))
                   * w.data[idx[2] + 1][q]])]

\* cudnnAddTensor with alpha = beta = 1: the bias of each channel added to
\* every element of the channel.
AddTensor(bias, out_desc, out_data) ==
  [p \in 1..Len(out_data) |-> out_data[p] + bias[IndexAt(out_desc, p - 1)[2] + 1]]

\* cudnnTransformTensor with alpha = 1, beta = 0: the same elements, laid out
\* by the destination descriptor.
TransformTensor(src_desc, src_data, dst_desc) ==
  [p \in 1..Len(src_data) |-> Elem(src_desc, src_data, IndexAt(dst_desc, p - 1))]

\* The sum of f[e] over the elements of the finite set S.
RECURSIVE SumOver(_, _)
SumOver(S, f) ==
  IF S = {} THEN 0
  ELSE LET e == CHOOSE x \in S : TRUE IN f[e] + SumOver(S \ {e}, f)

\* The output positions of one example and one channel.
SpatialSet(dims) ==
  { <<x, y, z>> : x \in 0..(dims[3] - 1), y \in 0..(dims[4] - 1), z \in 0..(dims[5] - 1) }

ConvolutionBackwardData_overwrite(filt, w, od_desc, od_data, conv, in_desc, in_deriv) ==
  [p \in 1..Len(in_deriv) |->
     LET idx == IndexAt(in_desc, p - 1)
         hits == { t \in (0..(filt.dims[1] - 1)) \X (1..w.cols) \X SpatialSet(od_desc.dims) :
                     InputIndex(conv, idx[1], KernelIndex(filt.dims, t[2] - 1), t[3]) = idx }
     IN  SumOver(hits, [t \in hits |->
                          w.data[t[1] + 1][t[2]]
                          * Elem(od_desc, od_data,
                                 << idx[1], t[1], t[3][1], t[3][2], t[3][3] >>)])]

\* cudnnConvolutionBackwardData with alpha = beta = 1: the input derivative
\* buffer after the call.
ConvolutionBackwardData(filt, w, od_desc, od_data, conv, in_desc, in_deriv) ==
  [p \in 1..Len(in_deriv) |->
     LET idx == IndexAt(in_desc, p - 1)
         hits == { t \in (0..(filt.dims[1] - 1)) \X (1..w.cols) \X SpatialSet(od_desc.dims) :
                     InputIndex(conv, idx[1], KernelIndex(filt.dims, t[2] - 1), t[3]) = idx }
     IN  in_deriv[p] +
         SumOver(hits, [t \in hits |->
                          w.data[t[1] + 1][t[2]]
                          * Elem(od_desc, od_data,
                                 << idx[1], t[1], t[3][1], t[3][2], t[3][3] >>)])]

\* cudnnConvolutionBackwardFilter with beta = 1: the filter matrix after the
\* call, alpha times the filter gradient added to it.
ConvolutionBackwardFilter(alpha, in_desc, in_data, od_desc, od_data, conv, filt, w) ==
  [w EXCEPT !.data =
     [k \in 1..w.rows |->
        [q \in 1..w.cols |->
           LET outs == (0..(od_desc.dims[1] - 1)) \X SpatialSet(od_desc.dims)
           IN  w.data[k][q] + alpha *
               SumOver(outs, [t \in outs |->
                 PaddedElem(in_desc, in_data,
                            InputIndex(conv, t[1], KernelIndex(filt.dims, q - 1), t[2]))
                 * Elem(od_desc, od_data, << t[1], k - 1, t[2][1], t[2][2], t[2][3] >>)])]]]

\* cudnnConvolutionBackwardBias with beta = 1: the bias after the call.
ConvolutionBackwardBias(alpha, od_desc, od_data, bias) ==
  [k \in 1..Len(bias) |->
     LET outs == (0..(od_desc.dims[1] - 1)) \X SpatialSet(od_desc.dims)
     IN  bias[k] + alpha *
         SumOver(outs, [t \in outs |->
                   Elem(od_desc, od_data, << t[1], k - 1, t[2][1], t[2][2], t[2][3] >>)])]

(***************************************************************************)
(* Propagate, Backprop and Update.  A matrix handed in by the caller is a  *)
(* record [rows, cols, stride, data].  The parameters are integers here,   *)
(* so the not-a-number assertions on their norms always pass.              *)
(***************************************************************************)
\* The matrix the caller hands in: rows x cols, filled from seed.
CallerMat(rows, cols, stride, seed) ==
  [rows |-> rows, cols |-> cols, stride |-> stride,
   data |-> MatSetRandn(rows, cols, seed).data]

NoMat == [rows |-> 0, cols |-> 0, stride |-> 0, data |-> <<>>]

\* The number of columns of an input row.
InputDim(c) == c.input_num_filters_ * c.input_z_dim_ * c.input_y_dim_ * c.input_x_dim_

\* One invocation of a convolution primitive by component c: the primitive
\* and the workspace and workspace size handed to it.
Prim(op, c) == [op |-> op, work_space |-> c.work_space_, size |-> c.work_space_size_]

PropagateOp_noInputDimAssert(c, in, out) ==
  LET input_dims == << in.rows, c.input_num_filters_,
                       c.input_x_dim_, c.input_y_dim_, c.input_z_dim_ >>
      ist == FillInputStrides(c.input_vectorization_, input_dims)
      in_desc == SetTensorNdDescriptor(input_dims, ist.val)
      opf == GetOutputDims(c)
      output_dims == << out.rows, c.num_filters_, opf.val[1], opf.val[2], opf.val[3] >>
      out_desc == SetTensorNdDescriptor(output_dims, FillOutputStrides(output_dims))
      conv == ConvolutionForward(in_desc.val, CopyRowsFromMat(in), c.filter_desc_,
                                 c.filter_params_, c.conv_desc_,
                                 out_desc.val, CopyRowsFromMat(out))
      biased == AddTensor(c.bias_params_, out_desc.val, conv)
      none == [out |-> out, in_desc |-> UnsetTensorDesc, out_desc |-> UnsetTensorDesc,
               prims |-> <<>>]
  IN  IF in.cols # in.stride THEN Fail(none, "KALDI_ASSERT: in.NumCols() == in.Stride()")
      ELSE IF out.cols # out.stride
      THEN Fail(none, "KALDI_ASSERT: out->NumCols() == out->Stride()")
      ELSE IF ist.err # "" THEN Fail(none, ist.err)
      ELSE IF in_desc.err # "" THEN Fail(none, in_desc.err)
      ELSE IF opf.err # "" THEN Fail([none EXCEPT !.in_desc = in_desc.val], opf.err)
      ELSE IF out.stride # c.num_filters_ * opf.val[1] * opf.val[2] * opf.val[3]
      THEN Fail([none EXCEPT !.in_desc = in_desc.val],
                "KALDI_ASSERT: out->Stride() == output dim")
      ELSE IF out_desc.err # "" THEN Fail([none EXCEPT !.in_desc = in_desc.val], out_desc.err)
      ELSE Ok([out |-> CopyRowsFromVec(out, biased),
               in_desc |-> in_desc.val, out_desc |-> out_desc.val,
               prims |-> << Prim("forward", c) >>])

\* Propagate(in, out): the output matrix after the call, the descriptors the
\* call built for the input and the output, and the convolution primitives
\* it invoked.
PropagateOp(c, in, out) ==
  LET input_dims == << in.rows, c.input_num_filters_,
                       c.input_x_dim_, c.input_y_dim_, c.input_z_dim_ >>
      ist == FillInputStrides(c.input_vectorization_, input_dims)
      in_desc == SetTensorNdDescriptor(input_dims, ist.val)
      opf == GetOutputDims(c)
      output_dims == << out.rows, c.num_filters_, opf.val[1], opf.val[2], opf.val[3] >>
      out_desc == SetTensorNdDescriptor(output_dims, FillOutputStrides(output_dims))
      conv == ConvolutionForward(in_desc.val, CopyRowsFromMat(in), c.filter_desc_,
                                 c.filter_params_, c.conv_desc_,
                                 out_desc.val, CopyRowsFromMat(out))
      biased == AddTensor(c.bias_params_, out_desc.val, conv)
      none == [out |-> out, in_desc |-> UnsetTensorDesc, out_desc |-> UnsetTensorDesc,
               prims |-> <<>>]
  IN  IF in.cols # in.stride THEN Fail(none, "KALDI_ASSERT: in.NumCols() == in.Stride()")
      ELSE IF out.cols # out.stride
      THEN Fail(none, "KALDI_ASSERT: out->NumCols() == out->Stride()")
      ELSE IF InputDim(c) # in.stride
      THEN Fail(none, "KALDI_ASSERT: input dim == in.Stride()")
      ELSE IF ist.err # "" THEN Fail(none, ist.err)
      ELSE IF in_desc.err # "" THEN Fail(none, in_desc.err)
      ELSE IF opf.err # "" THEN Fail([none EXCEPT !.in_desc = in_desc.val], opf.err)
      ELSE IF out.stride # c.num_filters_ * opf.val[1] * opf.val[2] * opf.val[3]
      THEN Fail([none EXCEPT !.in_desc = in_desc.val],
                "KALDI_ASSERT: out->Stride() == output dim")
      ELSE IF out_desc.err # "" THEN Fail([none EXCEPT !.in_desc = in_desc.val], out_desc.err)
      ELSE Ok([out |-> CopyRowsFromVec(out, biased),
               in_desc |-> in_desc.val, out_desc |-> out_desc.val,
               prims |-> << Prim("forward", c) >>])

UpdateOp_unitRate(t, in_value, out_deriv, in_desc, out_deriv_desc) ==
  LET shape == GetConvolutionNdForwardOutputDim(t.conv_desc_, in_desc, t.filter_desc_)
  IN  IF shape.err # "" \/ shape.val # out_deriv_desc.dims
         \/ t.filter_params_.rows # t.filter_desc_.dims[1]
      THEN Fail(t, "CUDNN_STATUS_BAD_PARAM")
      ELSE Ok([t EXCEPT
                 !.filter_params_ =
                   ConvolutionBackwardFilter(1, in_desc, in_value,
                                             out_deriv_desc, out_deriv, t.conv_desc_,
                                             t.filter_desc_, t.filter_params_),
                 !.bias_params_ =
                   ConvolutionBackwardBias(1, out_deriv_desc, out_deriv,
                                           t.bias_params_)])

\* Update(in_value, out_deriv, in_desc, out_deriv_desc) on the update target
\* t: the filter and bias gradients, times t's learning rate, added to t's
\* parameters through t's own descriptors.
UpdateOp(t, in_value, out_deriv, in_desc, out_deriv_desc) ==
  LET shape == GetConvolutionNdForwardOutputDim(t.conv_desc_, in_desc, t.filter_desc_)
  IN  IF shape.err # "" \/ shape.val # out_deriv_desc.dims
         \/ t.filter_params_.rows # t.filter_desc_.dims[1]
      THEN Fail(t, "CUDNN_STATUS_BAD_PARAM")
      ELSE Ok([t EXCEPT
                 !.filter_params_ =
                   ConvolutionBackwardFilter(t.learning_rate_, in_desc, in_value,
                                             out_deriv_desc, out_deriv, t.conv_desc_,
                                             t.filter_desc_, t.filter_params_),
                 !.bias_params_ =
                   ConvolutionBackwardBias(t.learning_rate_, out_deriv_desc, out_deriv,
                                           t.bias_params_)])

BackpropOp_updateFirst(c, in_value, out_deriv, has_update, t, has_deriv, in_deriv) ==
  LET opf == GetOutputDims(c)
      out_deriv_dims == << out_deriv.rows, c.num_filters_,
                           opf.val[1], opf.val[2], opf.val[3] >>
      out_deriv_desc == SetTensorNdDescriptor(out_deriv_dims,
                                              FillOutputStrides(out_deriv_dims))
      out_deriv_ncxyz_desc == SetTensorNdDescriptor(out_deriv_dims,
                                                    array_strides_NCXYZ(out_deriv_dims))
      out_deriv_ncxyz == TransformTensor(out_deriv_desc.val, CopyRowsFromMat(out_deriv),
                                         out_deriv_ncxyz_desc.val)
      in_dims == << in_value.rows, c.input_num_filters_,
                    c.input_x_dim_, c.input_y_dim_, c.input_z_dim_ >>
      ist == FillInputStrides(c.input_vectorization_, in_dims)
      in_desc == SetTensorNdDescriptor(in_dims, ist.val)
      upd == IF has_update
             THEN UpdateOp(t, CopyRowsFromMat(in_value), out_deriv_ncxyz,
                           in_desc.val, out_deriv_ncxyz_desc.val)
             ELSE Ok(t)
      new_deriv ==
        IF has_deriv
        THEN CopyRowsFromVec(in_deriv,
               ConvolutionBackwardData(c.filter_desc_,
                                       IF has_update /\ t = c
                                       THEN upd.val.filter_params_
                                       ELSE c.filter_params_,
                                       out_deriv_ncxyz_desc.val, out_deriv_ncxyz,
                                       c.conv_desc_, in_desc.val, CopyRowsFromMat(in_deriv)))
        ELSE in_deriv
      data == IF has_deriv THEN << Prim("backward_data", c) >> ELSE <<>>
      filt == IF has_update THEN << Prim("backward_filter", t) >> ELSE <<>>
      none == [in_deriv |-> in_deriv, t |-> t, prims |-> <<>>]
  IN  IF opf.err # "" THEN Fail(none, opf.err)
      ELSE IF in_value.cols # in_value.stride
      THEN Fail(none, "KALDI_ASSERT: in_value.NumCols() == in_value.Stride()")
      ELSE IF in_value.cols # InputDim(c)
      THEN Fail(none, "KALDI_ASSERT: in_value.NumCols() == input dim")
      ELSE IF out_deriv.stride # out_deriv.cols
      THEN Fail(none, "KALDI_ASSERT: out_deriv.Stride() == out_deriv.NumCols()")
      ELSE IF out_deriv.stride # c.num_filters_ * opf.val[1] * opf.val[2] * opf.val[3]
      THEN Fail(none, "KALDI_ASSERT: out_deriv.Stride() == output dim")
      ELSE IF out_deriv_desc.err # "" THEN Fail(none, out_deriv_desc.err)
      ELSE IF ist.err # "" THEN Fail(none, ist.err)
      ELSE IF in_desc.err # "" THEN Fail(none, in_desc.err)
      ELSE IF upd.err # ""
      THEN Fail([in_deriv |-> new_deriv, t |-> upd.val, prims |-> data \o filt], upd.err)
      ELSE Ok([in_deriv |-> new_deriv, t |-> upd.val, prims |-> data \o filt])

\* Backprop(in_value, out_deriv, to_update_in, in_deriv).  to_update is the
\* result of the dynamic cast of to_update_in: has_update tells whether it is
\* non-null, and t is then the component it points to.  has_deriv tells
\* whether in_deriv is non-null.  The value is the input derivative and the
\* update target after the call, and the convolution primitives invoked (the
\* backward-filter primitive of Update also when the library refuses it).
BackpropOp(c, in_value, out_deriv, has_update, t, has_deriv, in_deriv) ==
  LET opf == GetOutputDims(c)
      out_deriv_dims == << out_deriv.rows, c.num_filters_,
                           opf.val[1], opf.val[2], opf.val[3] >>
      out_deriv_desc == SetTensorNdDescriptor(out_deriv_dims,
                                              FillOutputStrides(out_deriv_dims))
      out_deriv_ncxyz_desc == SetTensorNdDescriptor(out_deriv_dims,
                                                    array_strides_NCXYZ(out_deriv_dims))
      out_deriv_ncxyz == TransformTensor(out_deriv_desc.val, CopyRowsFromMat(out_deriv),
                                         out_deriv_ncxyz_desc.val)
      in_dims == << in_value.rows, c.input_num_filters_,
                    c.input_x_dim_, c.input_y_dim_, c.input_z_dim_ >>
      ist == FillInputStrides(c.input_vectorization_, in_dims)
      in_desc == SetTensorNdDescriptor(in_dims, ist.val)
      new_deriv ==
        IF has_deriv
        THEN CopyRowsFromVec(in_deriv,
               ConvolutionBackwardData(c.filter_desc_, c.filter_params_,
                                       out_deriv_ncxyz_desc.val, out_deriv_ncxyz,
                                       c.conv_desc_, in_desc.val, CopyRowsFromMat(in_deriv)))
        ELSE in_deriv
      upd == IF has_update
             THEN UpdateOp(t, CopyRowsFromMat(in_value), out_deriv_ncxyz,
                           in_desc.val, out_deriv_ncxyz_desc.val)
             ELSE Ok(t)
      data == IF has_deriv THEN << Prim("backward_data", c) >> ELSE <<>>
      filt == IF has_update THEN << Prim("backward_filter", t) >> ELSE <<>>
      none == [in_deriv |-> in_deriv, t |-> t, prims |-> <<>>]
  IN  IF opf.err # "" THEN Fail(none, opf.err)
      ELSE IF in_value.cols # in_value.stride
      THEN Fail(none, "KALDI_ASSERT: in_value.NumCols() == in_value.Stride()")
      ELSE IF in_value.cols # InputDim(c)
      THEN Fail(none, "KALDI_ASSERT: in_value.NumCols() == input dim")
      ELSE IF out_deriv.stride # out_deriv.cols
      THEN Fail(none, "KALDI_ASSERT: out_deriv.Stride() == out_deriv.NumCols()")
      ELSE IF out_deriv.stride # c.num_filters_ * opf.val[1] * opf.val[2] * opf.val[3]
      THEN Fail(none, "KALDI_ASSERT: out_deriv.Stride() == output dim")
      ELSE IF out_deriv_desc.err # "" THEN Fail(none, out_deriv_desc.err)
      ELSE IF ist.err # "" THEN Fail(none, ist.err)
      ELSE IF in_desc.err # "" THEN Fail(none, in_desc.err)
      ELSE IF upd.err # ""
      THEN Fail([in_deriv |-> new_deriv, t |-> upd.val, prims |-> data \o filt], upd.err)
      ELSE Ok([in_deriv |-> new_deriv, t |-> upd.val, prims |-> data \o filt])

(***************************************************************************)
(* The state.                                                              *)
(*   comp     the components, by slot; a slot may hold none                *)
(*   status   "ok", or "fatal" once an operation has ended in a fatal      *)
(*            error (the process does not go on)                           *)
(*   last     the last operation: its name, the slot it was called on,     *)
(*            the kind of its peer argument, its error, its integer        *)
(*            arguments and the vector or number it returned               *)
(*   stream   the items of the stream that are still to be read            *)
(*   written  the component as it was when Write wrote the stream          *)
(*   call     the matrices and descriptors of the last Propagate/Backprop, *)
(*            the sizes of the matrices it was given, the convolution      *)
(*            primitives it invoked and, where the library's workspace     *)
(*            requirements are followed, these requirements                *)
(*   layout   a shape and the strides a stride filler gave for it          *)
(*   steps    the number of operations so far that initialised a component,*)
(*            changed its parameters or ran the convolution engine         *)
(***************************************************************************)
VARIABLES comp, status, last, stream, written, call, layout, steps

vars == << comp, status, last, stream, written, call, layout, steps >>

CompIds == {1, 2}

\* The sizes of the matrices a caller handed to Propagate or Backprop.
Args(in, out) ==
  [rows |-> in.rows, in_cols |-> in.cols, in_stride |-> in.stride,
   out_rows |-> out.rows, out_cols |-> out.cols, out_stride |-> out.stride]

NoCall == [in_desc |-> UnsetTensorDesc, out_desc |-> UnsetTensorDesc,
           out |-> NoMat, in_deriv |-> NoMat, old_deriv |-> NoMat,
           args |-> Args(NoMat, NoMat), prims |-> <<>>, needs |-> <<>>]

NoLayout == [fn |-> "", shape |-> <<>>, strides |-> <<>>]

Last(op, id, other, err, arg, ret) ==
  [op |-> op, id |-> id, other |-> other, err |-> err, arg |-> arg, ret |-> ret]

\* The state after the construction of the first component.
InitState ==
  /\ comp = [i \in CompIds |-> IF i = 1 THEN DefaultComponent ELSE NoComponent]
  /\ status = "ok"
  /\ last = Last("construct", 1, "", "", <<>>, <<>>)
  /\ stream = <<>>
  /\ written = NoComponent
  /\ call = NoCall
  /\ layout = NoLayout
  /\ steps = 0

\* What every operation leaves behind: its record, and the process status.
Done(op, id, other, err, arg, ret) ==
  /\ last' = Last(op, id, other, err, arg, ret)
  /\ status' = IF err = "" THEN "ok" ELSE "fatal"

Running(i) == status = "ok" /\ comp[i].alive

\* A component is fresh until an Init or a Read has set its descriptors.
Fresh(c) == c.alive /\ ~c.filter_desc_.set /\ c.filter_params_ = EmptyMat

(***************************************************************************)
(* The inputs.                                                             *)
(***************************************************************************)
\* The specification of one spatial axis.
AxisSpecs ==
  [in : 1..MaxInputDim, filt : 1..MaxFiltDim, step : 1..MaxStep,
   pad : 0..MaxPad, upscale : 1..MaxUpscale]

Config(x, y, z, inc, nf, v, lr) ==
  [in |-> << x.in, y.in, z.in >>, filt |-> << x.filt, y.filt, z.filt >>,
   step |-> << x.step, y.step, z.step >>, pad |-> << x.pad, y.pad, z.pad >>,
   upscale |-> << x.upscale, y.upscale, z.upscale >>,
   input_num_filters |-> inc, num_filters |-> nf, vec |-> v, lrate |-> lr]

Vectorizations == {kZyx, kYzx}

\* The learning rate the configuration of a layer gives: 1 for the layers in
\* zyx order, MaxAlpha for the layers in yzx order.
LearningRateOf(v) == IF v = kZyx THEN 1 ELSE MaxAlpha

\* The layers the operations are exercised on.  The X axis varies in its
\* input extent (the kernel does not fit the smallest one), the Y axis is
\* padded and strided, the Z axis is dilated.
ParamConfigs ==
  { Config(x, y, z, inc, nf, v, LearningRateOf(v)) :
      x \in { a \in AxisSpecs : a.filt = MaxFiltDim /\ a.step = 1
                                /\ a.pad = 0 /\ a.upscale = 1 },
      y \in { a \in AxisSpecs : a.in = MaxInputDim /\ a.filt = MaxFiltDim
                                /\ a.step = MaxStep /\ a.pad = MaxPad /\ a.upscale = 1 },
      z \in { a \in AxisSpecs : a.in = 1 /\ a.filt = 1 /\ a.step = 1
                                /\ a.pad = 0 /\ a.upscale = MaxUpscale },
      inc \in {MaxChannels}, nf \in {MaxFilters}, v \in Vectorizations }

\* The layers the shape inference is exercised on: every specification of
\* the X axis, the unpadded, unstrided and undilated ones of the Y axis on
\* the largest input, a Z axis of every input extent under a kernel of
\* extent 1, and every number of input channels and of filters.
ShapeConfigs ==
  { Config(x, y, z, inc, nf, v, LearningRateOf(v)) :
      x \in AxisSpecs,
      y \in { a \in AxisSpecs : a.in = MaxInputDim /\ a.step = 1
                                /\ a.pad = 0 /\ a.upscale = 1 },
      z \in { a \in AxisSpecs : a.filt = 1 /\ a.step = 1
                                /\ a.pad = 0 /\ a.upscale = 1 },
      inc \in 1..MaxChannels, nf \in 1..MaxFilters, v \in Vectorizations }

Stddevs == (-1)..MaxStddev
Seeds == 0..MaxSeed
Alphas == {-1, MaxAlpha}

(***************************************************************************)
(* The operations.                                                         *)
(***************************************************************************)
\* InitFromConfig up to its call of Init: the learning rate of the
\* configuration is stored.
InitLearningRatesFromConfig(c, cfg) == SetActualLearningRate(c, cfg.lrate)

\* The keys InitFromConfig requires of every line, in the order it asks for
\* them.
RequiredKeys ==
  << "input-x-dim", "input-y-dim", "input-z-dim",
     "filt-x-dim", "filt-y-dim", "filt-z-dim",
     "filt-x-step", "filt-y-step", "filt-z-step" >>

\* A configuration line: the layer cfg it describes, the keys among the
\* required ones, "num-filters", "matrix", "param-stddev" and "bias-stddev"
\* that it holds, the string of input-vectorization-order, whether it holds
\* a key the component does not know, the whole numbers of param-stddev and
\* of bias-stddev, and the matrix the file of the matrix key holds.
ConfigLine(cfg, keys, order, unknown, param_stddev, bias_stddev) ==
  [cfg |-> cfg, keys |-> keys, order |-> order, unknown |-> unknown,
   param_stddev |-> param_stddev, bias_stddev |-> bias_stddev,
   matrix |-> MatSetRandn(cfg.num_filters, FilterDim(cfg) + 1, 1)]

\* std::sqrt of a square number; the root of any other number is no number
\* of the model.
Sqrt(n) == CHOOSE s \in 1..n : s * s = n

\* ok = ok && GetValue(key k): the k-th required key is asked for only
\* while ok holds, and is got when the line holds it.
Got(line, k) == \A j \in 1..k : RequiredKeys[j] \in line.keys

\* The local variable of the k-th required key when Init is reached: the
\* value of the line, or the placeholder -1.
Placeholder(line, k, v) == IF Got(line, k) THEN v ELSE -1

\* HasUnusedValues: a key of the line that no GetValue asked for.  The
\* branch of the matrix key asks for none of "num-filters", "param-stddev"
\* and "bias-stddev".
HasUnusedValues(line) ==
  \/ line.unknown
  \/ \E k \in 1..Len(RequiredKeys) : RequiredKeys[k] \in line.keys /\ ~Got(line, k)
  \/ /\ "matrix" \in line.keys
     /\ line.keys \cap {"num-filters", "param-stddev", "bias-stddev"} # {}

\* InitFromConfig(cfl).  Without the key param-stddev the deviation of the
\* filter parameters is 1 / sqrt(filt_x_dim * filt_y_dim * input_z_dim),
\* without the key bias-stddev that of the bias is 1.  junk is what the
\* storage Init resizes holds.
InitFromConfigOp(c, line, junk) ==
  LET cfg == line.cfg
      c0 == InitLearningRatesFromConfig(c, cfg)
      ok == Got(line, Len(RequiredKeys))
      args == [cfg EXCEPT
                 !.in = [k \in 1..3 |-> Placeholder(line, k, cfg.in[k])],
                 !.filt = [k \in 1..3 |-> Placeholder(line, 3 + k, cfg.filt[k])],
                 !.step = [k \in 1..3 |-> Placeholder(line, 6 + k, cfg.step[k])],
                 !.vec = IF line.order = "zyx" THEN kZyx ELSE kYzx]
      filter_input_dim == args.filt[1] * args.filt[2] * args.in[3]
      param_stddev == IF "param-stddev" \in line.keys
                      THEN [num |-> line.param_stddev, den |-> 1]
                      ELSE [num |-> 1, den |-> Sqrt(filter_input_dim)]
      bias_stddev == IF "bias-stddev" \in line.keys THEN line.bias_stddev ELSE 1
      r == IF "matrix" \in line.keys
           THEN InitMatrixOp(c0, args, line.matrix)
           ELSE InitRandomOp(c0, args, param_stddev, bias_stddev, 0, junk)
  IN  IF line.order \notin {"zyx", "yzx"}
      THEN Fail(c0, "KALDI_ERR: Unknown or unsupported input vectorization order")
      ELSE IF "matrix" \notin line.keys /\ ~(ok /\ "num-filters" \in line.keys)
      THEN Fail(c0, "KALDI_ERR: Bad initializer")
      ELSE IF r.err # "" THEN r
      ELSE IF HasUnusedValues(line)
      THEN Fail(r.val, "KALDI_ERR: Could not process these elements in initializer")
      ELSE IF ~ok THEN Fail(r.val, "KALDI_ERR: Bad initializer")
      ELSE r

\* What the storage that Resize(kUndefined) gives may hold.
Undefined == {0, 1}

\* Init with random parameters, as InitFromConfig calls it, with whole
\* numbers for both deviations.
DoInitRandom(i, cfg, param_stddev, bias_stddev, seed) ==
  \E junk \in Undefined :
  LET r == InitRandomOp(InitLearningRatesFromConfig(comp[i], cfg), cfg,
                        [num |-> param_stddev, den |-> 1], bias_stddev, seed, junk)
  IN  /\ Running(i)
      /\ steps < MaxMutations
      /\ comp' = [comp EXCEPT ![i] = r.val]
      /\ steps' = steps + 1
      /\ Done("Init", i, "random", r.err, <<>>, <<>>)
      /\ UNCHANGED << stream, written, call, layout >>

InitRandom ==
  \E cfg \in ParamConfigs, ps \in Stddevs, bs \in Stddevs :
    Fresh(comp[1]) /\ DoInitRandom(1, cfg, ps, bs, 0)

\* Init from a matrix, as InitFromConfig calls it.
DoInitMatrix(i, cfg, mat) ==
  LET r == InitMatrixOp(InitLearningRatesFromConfig(comp[i], cfg), cfg, mat)
  IN  /\ Running(i)
      /\ steps < MaxMutations
      /\ comp' = [comp EXCEPT ![i] = r.val]
      /\ steps' = steps + 1
      /\ Done("Init", i, "matrix", r.err, <<>>, <<>>)
      /\ UNCHANGED << stream, written, call, layout >>

\* The matrix file holds rows rows and filter_dim + 1 columns, or one more.
InitMatrix ==
  \E cfg \in ParamConfigs, rows \in 1..MaxFilters, d \in {0, 1} :
    Fresh(comp[1]) /\ DoInitMatrix(1, cfg, MatSetRandn(rows, FilterDim(cfg) + 1 + d, 1))

\* The default constructor, for the second slot.
Construct ==
  /\ status = "ok"
  /\ ~comp[2].alive
  /\ comp' = [comp EXCEPT ![2] = DefaultComponent]
  /\ Done("construct", 2, "", "", <<>>, <<>>)
  /\ UNCHANGED << stream, written, call, layout, steps >>

\* Copy(): the second slot receives a copy of the first component.
Copy ==
  /\ Running(1)
  /\ ~comp[2].alive
  /\ comp' = [comp EXCEPT ![2] = CopyOp(comp[1], 2)]
  /\ Done("Copy", 2, "", "", <<>>, <<>>)
  /\ UNCHANGED << stream, written, call, layout, steps >>

Scale ==
  \E i \in CompIds, scale \in Alphas \cup {0} :
    /\ Running(i)
    /\ steps < MaxMutations
    /\ comp' = [comp EXCEPT ![i] = ScaleOp(comp[i], scale)]
    /\ steps' = steps + 1
    /\ Done("Scale", i, "", "", <<scale>>, <<>>)
    /\ UNCHANGED << stream, written, call, layout >>

\* Add(alpha, other).  other is the component of slot j, or a component of
\* another type ("foreign"), for which the dynamic cast gives null.
Add ==
  \E i \in CompIds, j \in CompIds, alpha \in Alphas, foreign \in BOOLEAN :
    LET r == IF foreign THEN Fail(comp[i], "KALDI_ASSERT: other != NULL")
             ELSE AddOp(comp[i], alpha, comp[j])
    IN  /\ Running(i)
        /\ Running(j)
        /\ steps < MaxMutations
        /\ comp' = [comp EXCEPT ![i] = r.val]
        /\ steps' = steps + 1
        /\ Done("Add", i, IF foreign THEN "foreign" ELSE "same", r.err, <<alpha>>, <<>>)
        /\ UNCHANGED << stream, written, call, layout >>

\* What a read through a null pointer may give.
Garbage == {0, 1}

\* DotProduct(other).  For a foreign other the cast gives null, and the
\* null pointer is dereferenced unchecked: the behaviour is undefined, the
\* process may crash or go on with any value.
DotProduct ==
  \E i \in CompIds, j \in CompIds, foreign \in BOOLEAN :
    \E r \in IF foreign
             THEN {Fail(0, "SIGSEGV")} \cup { Ok(g) : g \in Garbage }
             ELSE {DotProductOp(comp[i], comp[j])} :
      /\ Running(i)
      /\ Running(j)
      /\ foreign => j = i
      /\ Done("DotProduct", i, IF foreign THEN "foreign" ELSE "same", r.err,
              <<>>, <<r.val>>)
      /\ UNCHANGED << comp, stream, written, call, layout, steps >>

SetZero ==
  \E i \in CompIds, treat_as_gradient \in BOOLEAN :
    /\ Running(i)
    /\ steps < MaxMutations
    /\ comp' = [comp EXCEPT ![i] = SetZeroOp(comp[i], treat_as_gradient)]
    /\ steps' = steps + 1
    /\ Done("SetZero", i, "", "", << IF treat_as_gradient THEN 1 ELSE 0 >>, <<>>)
    /\ UNCHANGED << stream, written, call, layout >>

PerturbParams ==
  \E i \in CompIds, stddev \in 1..MaxStddev, seed \in Seeds :
    /\ Running(i)
    /\ steps < MaxMutations
    /\ comp' = [comp EXCEPT ![i] = PerturbParamsOp(comp[i], stddev, seed)]
    /\ steps' = steps + 1
    /\ Done("PerturbParams", i, "", "", <<stddev>>, <<>>)
    /\ UNCHANGED << stream, written, call, layout >>

\* Vectorize(params): the caller's vector has NumParameters() + d entries.
\* The operation returns the vector it filled.
Vectorize ==
  \E i \in CompIds, d \in {0, 1} :
    LET r == VectorizeOp(comp[i], NumParameters(comp[i]) + d)
    IN  /\ Running(i)
        /\ Done("Vectorize", i, "", r.err, <<NumParameters(comp[i]) + d>>, r.val)
        /\ UNCHANGED << comp, stream, written, call, layout, steps >>

\* UnVectorize(params): params is the vector the preceding Vectorize filled
\* (own = TRUE), or a vector of NumParameters() + d values from elsewhere.
UnVectorize ==
  \E i \in CompIds, own \in BOOLEAN, d \in {0, 1}, seed \in Seeds :
    LET params == IF own THEN last.ret
                  ELSE VecSetRandn(NumParameters(comp[i]) + d, seed)
        r == UnVectorizeOp(comp[i], params)
    IN  /\ Running(i)
        /\ own => last.op = "Vectorize"
        /\ steps < MaxMutations
        /\ comp' = [comp EXCEPT ![i] = r.val]
        /\ steps' = steps + 1
        /\ Done("UnVectorize", i, IF own THEN "own" ELSE "", r.err, <<>>, params)
        /\ UNCHANGED << stream, written, call, layout >>

\* OutputDim().
GetOutputDim ==
  \E i \in CompIds :
    LET r == OutputDim(comp[i])
    IN  /\ Running(i)
        /\ Done("OutputDim", i, "", r.err, <<>>, <<r.val>>)
        /\ UNCHANGED << comp, stream, written, call, layout, steps >>

\* Write(os): the stream holds one component at most.
Write ==
  \E i \in CompIds :
    LET r == WriteOp(comp[i])
    IN  /\ Running(i)
        /\ stream = <<>>
        /\ stream' = r.val
        /\ written' = comp[i]
        /\ Done("Write", i, "", r.err, <<>>, <<>>)
        /\ UNCHANGED << comp, call, layout, steps >>

\* Read(is) on a component that Init and Read have initialised less than
\* inits times.  The stream keeps the items Read has not taken: all those
\* of a component are gone when InitDescriptor is called, whether it then
\* fails or not.
DoRead(i, inits) ==
  LET r == ReadOp(comp[i], stream)
  IN  /\ Running(i)
      /\ stream # <<>>
      /\ comp[i].handles_.filter <= inits
      /\ comp' = [comp EXCEPT ![i] = r.val]
      /\ stream' = SubSeq(stream, ReadParse(comp[i], stream).pos, Len(stream))
      /\ Done("Read", i, "", r.err, <<>>, <<>>)
      /\ UNCHANGED << written, call, layout, steps >>

\* Read(is) into a component that has not been initialised.
Read == \E i \in CompIds : DoRead(i, 1)

\* The ways the caller's matrices may break the contract of Propagate and
\* Backprop: not at all, or in the column count or the stride of one matrix.
Faults == {"none", "in_cols", "in_stride", "out_cols", "out_stride"}

Extra(fault, f) == IF fault = f THEN 1 ELSE 0

\* The number of columns the caller gives an output row: OutputDim(), or 1
\* when OutputDim() cannot be computed.
CallerOutputDim(c) == IF OutputDim(c).err = "" THEN OutputDim(c).val ELSE 1

CallerIn(c, n, fault, seed) ==
  CallerMat(n, InputDim(c) + Extra(fault, "in_cols"),
            InputDim(c) + Extra(fault, "in_cols") + Extra(fault, "in_stride"), seed)

CallerOut(c, n, fault, seed) ==
  CallerMat(n, CallerOutputDim(c) + Extra(fault, "out_cols"),
            CallerOutputDim(c) + Extra(fault, "out_cols") + Extra(fault, "out_stride"), seed)

\* Propagate(in, out): out arrives zeroed.
DoPropagate(i, n, fault, seed) ==
  /\ Running(i)
  /\ steps < MaxMutations
  /\ steps' = steps + 1
  /\ \E in \in {CallerIn(comp[i], n, fault, seed)},
        out \in {MatSetZero(CallerOut(comp[i], n, fault, 0))} :
       \E r \in {PropagateOp(comp[i], in, out)} :
         /\ call' = [NoCall EXCEPT !.in_desc = r.val.in_desc,
                                   !.out_desc = r.val.out_desc,
                                   !.out = r.val.out,
                                   !.args = Args(in, out),
                                   !.prims = r.val.prims]
         /\ Done("Propagate", i, "", r.err, <<n>>, <<>>)
  /\ UNCHANGED << comp, stream, written, layout >>

\* The update targets a caller may pass to Backprop: none, the component
\* itself, the component of the other slot, or a component of another type.
Targets == {"none", "self", "same", "foreign"}

\* Backprop(in_value, out_deriv, to_update_in, in_deriv) on slot i with the
\* component of slot j as the target when the target is a component of this
\* type.  The dynamic cast of a foreign target gives null, as no target does.
DoBackprop(i, j, target, has_deriv, n, fault, seed) ==
  /\ Running(i)
  /\ Running(j)
  /\ IF target = "same" THEN i # j ELSE i = j
  /\ steps < MaxMutations
  /\ steps' = steps + 1
  /\ \E in_value \in {CallerIn(comp[i], n, fault, seed)},
        out_deriv \in {CallerOut(comp[i], n, fault, seed + 1)},
        in_deriv \in {IF has_deriv THEN CallerIn(comp[i], n, "none", seed + 2)
                      ELSE NoMat} :
       \E r \in {BackpropOp(comp[i], in_value, out_deriv, target \in {"self", "same"},
                            comp[j], has_deriv, in_deriv)} :
         /\ comp' = [comp EXCEPT ![j] = r.val.t]
         /\ call' = [NoCall EXCEPT !.in_deriv = r.val.in_deriv,
                                   !.old_deriv = in_deriv,
                                   !.args = Args(in_value, out_deriv),
                                   !.prims = r.val.prims]
         /\ Done("Backprop", i, target, r.err,
                 << n, IF has_deriv THEN 1 ELSE 0, seed >>, <<>>)
  /\ UNCHANGED << stream, written, layout >>

\* A training step of one example that updates a target.
BackpropUpdate ==
  \E i \in CompIds, j \in CompIds, target \in {"self", "same"} :
    DoBackprop(i, j, target, FALSE, 1, "none", 0)

Next ==
  \/ InitRandom
  \/ InitMatrix
  \/ Construct
  \/ Copy
  \/ Scale
  \/ Add
  \/ DotProduct
  \/ SetZero
  \/ PerturbParams
  \/ Vectorize
  \/ UnVectorize
  \/ Write
  \/ Read
  \/ BackpropUpdate

Spec == InitState /\ [][Next]_vars

(***************************************************************************)
(* The engine: Propagate and Backprop under every caller fault and every   *)
(* kind of update target, on layers initialised with unit deviations.      *)
(***************************************************************************)
EngineInit ==
  \E cfg \in ParamConfigs, seed \in Seeds :
    Fresh(comp[1]) /\ DoInitRandom(1, cfg, 1, 1, seed)

Propagate ==
  \E i \in CompIds, n \in 1..MaxBatch, fault \in Faults, seed \in Seeds :
    DoPropagate(i, n, fault, seed)

Backprop ==
  \E i \in CompIds, j \in CompIds, target \in Targets, has_deriv \in BOOLEAN,
     n \in 1..MaxBatch, fault \in Faults :
    DoBackprop(i, j, target, has_deriv, n, fault, 0)

NextEngine ==
  \/ EngineInit
  \/ Copy
  \/ GetOutputDim
  \/ Propagate
  \/ Backprop

SpecEngine == InitState /\ [][NextEngine]_vars

(***************************************************************************)
(* The stride fillers as pure functions: a shape is drawn, and one filler  *)
(* is applied to it.                                                       *)
(***************************************************************************)
Shapes ==
  { << n, c, x, y, z >> : n \in 1..MaxExtent, c \in 1..MaxExtent, x \in 1..MaxExtent,
                          y \in 1..MaxExtent, z \in 1..MaxExtent }

InitStrides ==
  /\ comp = [i \in CompIds |-> IF i = 1 THEN DefaultComponent ELSE NoComponent]
  /\ status = "ok"
  /\ last = Last("construct", 1, "", "", <<>>, <<>>)
  /\ stream = <<>>
  /\ written = NoComponent
  /\ call = NoCall
  /\ layout \in { [NoLayout EXCEPT !.shape = s] : s \in Shapes }
  /\ steps = 0

Filled(fn, strides, err) ==
  /\ layout.fn = ""
  /\ layout' = [layout EXCEPT !.fn = fn, !.strides = strides]
  /\ Done(fn, 1, "", err, <<>>, <<>>)
  /\ UNCHANGED << comp, stream, written, call, steps >>

ApplyNXYZC == Filled("array_strides_NXYZC", array_strides_NXYZC(layout.shape), "")

ApplyNXZYC == Filled("array_strides_NXZYC", array_strides_NXZYC(layout.shape), "")

ApplyNCXYZ == Filled("array_strides_NCXYZ", array_strides_NCXYZ(layout.shape), "")

ApplyNCXZY == Filled("array_strides_NCXZY", array_strides_NCXZY(layout.shape), "")

\* FillInputStrides under each activation order, and under a value that is
\* none of them.
ApplyFillInput ==
  \E v \in Vectorizations \cup {kYzx + 1} :
    LET r == FillInputStrides(v, layout.shape)
    IN  Filled(IF v = kZyx THEN "FillInputStrides(kZyx)"
               ELSE IF v = kYzx THEN "FillInputStrides(kYzx)"
               ELSE "FillInputStrides(?)", r.val, r.err)

ApplyFillOutput == Filled("FillOutputStrides", FillOutputStrides(layout.shape), "")

NextStrides ==
  \/ ApplyNXYZC
  \/ ApplyNXZYC
  \/ ApplyNCXYZ
  \/ ApplyNCXZY
  \/ ApplyFillInput
  \/ ApplyFillOutput

SpecStrides == InitStrides /\ [][NextStrides]_vars

(***************************************************************************)
(* Properties.                                                             *)
(***************************************************************************)
PropagateDone == last.op = "Propagate" /\ last.err = ""

\* C1 (as the code has it): for either activation order and every batch
\* size, the output descriptor Propagate builds for the output shape
\* [N, C, X, Y, Z] has the packed channel-innermost strides
\* [C*X*Y*Z, 1, C*Y*Z, C*Z, C].
C1_OutputStridesChannelInnermost ==
  PropagateDone =>
    LET d == call.out_desc.dims
    IN  /\ call.out_desc.set
        /\ d[1] = last.arg[1]
        /\ call.out_desc.strides =
             << d[2] * d[3] * d[4] * d[5], 1, d[2] * d[4] * d[5], d[2] * d[5], d[2] >>

\* C1 as stated: the output descriptor Propagate builds has the packed
\* channel-outermost strides [C*X*Y*Z, X*Y*Z, Y*Z, Z, 1].
C1_OutputStridesChannelOutermost ==
  PropagateDone =>
    LET d == call.out_desc.dims
    IN  call.out_desc.strides =
          << d[2] * d[3] * d[4] * d[5], d[3] * d[4] * d[5], d[4] * d[5], d[5], 1 >>

\* A Propagate of the largest batch through a layer in yzx order whose output
\* has several channels and several points has returned.
C1_Witness ==
  /\ PropagateDone
  /\ comp[last.id].input_vectorization_ = kYzx
  /\ call.out_desc.dims[1] = MaxBatch
  /\ call.out_desc.dims[2] > 1
  /\ call.out_desc.dims[3] * call.out_desc.dims[4] * call.out_desc.dims[5] > 1

\* The map idx -> Offset(strides, idx) is one to one from the indices of the
\* shape onto 0 .. N*C*X*Y*Z - 1.
Bijective(shape, strides) ==
  /\ \A a, b \in IndexSet(shape) : a # b => Offset(strides, a) # Offset(strides, b)
  /\ { Offset(strides, a) : a \in IndexSet(shape) } = 0..(Product(shape) - 1)

ComponentFillers ==
  {"FillInputStrides(kZyx)", "FillInputStrides(kYzx)", "FillOutputStrides"}

\* C2: for every shape with extents >= 1, the strides FillInputStrides gives
\* under each of the two activation orders and the strides FillOutputStrides
\* gives map the indices of the shape one to one onto 0 .. N*C*X*Y*Z - 1.
C2_StrideMapsAreBijections ==
  layout.fn \in ComponentFillers =>
    /\ Len(layout.strides) = 5
    /\ Bijective(layout.shape, layout.strides)

\* FillInputStrides in yzx order has filled the strides of a shape whose Y
\* and Z extents differ and that has several examples and channels.
C2_Witness ==
  /\ layout.fn = "FillInputStrides(kYzx)"
  /\ layout.shape[1] > 1
  /\ layout.shape[2] > 1
  /\ layout.shape[4] < layout.shape[5]
  /\ Bijective(layout.shape, layout.strides)

\* What Write followed by Read has to reproduce of the writer w in the
\* reader r.
SameState(r, w) ==
  /\ r.input_x_dim_ = w.input_x_dim_
  /\ r.input_y_dim_ = w.input_y_dim_
  /\ r.input_z_dim_ = w.input_z_dim_
  /\ r.input_num_filters_ = w.input_num_filters_
  /\ r.num_filters_ = w.num_filters_
  /\ r.filter_desc_ = w.filter_desc_
  /\ r.conv_desc_ = w.conv_desc_
  /\ r.input_vectorization_ = w.input_vectorization_
  /\ r.filter_params_ = w.filter_params_
  /\ r.bias_params_ = w.bias_params_
  /\ r.is_gradient_ = w.is_gradient_
  /\ GetOutputDims(r) = GetOutputDims(w)

\* C3: Read of a stream that Write wrote in full, into a freshly constructed
\* component, succeeds and leaves the reader with the writer's input
\* extents, channel counts, kernel extents, padding, stride and upscale,
\* vectorization order, filter and bias values, gradient flag, and with
\* descriptors from which GetOutputDims returns what it returns on the writer.
C3_WriteReadRoundTrip ==
  [][ (last'.op = "Read" /\ Fresh(comp[last'.id]) /\ stream = WriteOp(written).val
       /\ WriteOp(written).err = "")
      => (last'.err = "" /\ SameState(comp'[last'.id], written)) ]_vars

\* A fresh component has read the stream of a writer whose parameters are
\* not all zero, whose padding differs between the axes and which is marked
\* as a gradient.
C3_Witness ==
  /\ last.op = "Read"
  /\ last.err = ""
  /\ last.id = 2
  /\ SameState(comp[2], written)
  /\ written.is_gradient_
  /\ written.conv_desc_.pad[1] # written.conv_desc_.pad[2]
  /\ \E r \in 1..written.filter_params_.rows : written.filter_params_.data[r][1] # 0
  /\ \E k \in 1..Len(written.bias_params_) : written.bias_params_[k] # 0

\* The tags of a stream, in order.
TagsOf(s) == [k \in 1..Len(SelectSeq(s, LAMBDA it : it.kind = "token")) |->
                SelectSeq(s, LAMBDA it : it.kind = "token")[k].tok]

\* The type of the value that follows each tag of a stream ("" when the next
\* item is a tag or the stream ends), in order.
KindsOf(s) ==
  LET pos == SelectSeq([p \in 1..Len(s) |-> p], LAMBDA p : s[p].kind = "token")
  IN  [k \in 1..Len(pos) |->
         IF pos[k] < Len(s) /\ s[pos[k] + 1].kind # "token"
         THEN s[pos[k] + 1].kind ELSE ""]

\* The tags after the common header, as the format lists them.
FormatTags ==
  << "<InputXDim>", "<InputYDim>", "<InputZDim>", "<InputNumFilters>",
     "<OutputNumFilters>", "<FilterXDim>", "<FilterYDim>", "<FilterZDim>",
     "<FilterXPadding>", "<FilterYPadding>", "<FilterZPadding>",
     "<FilterXStride>", "<FilterYStride>", "<FilterZStride>",
     "<FilterXUpscale>", "<FilterYUpscale>", "<FilterZUpscale>",
     "<InputVectorization>", "<FilterParams>", "<BiasParams>", "<IsGradient>",
     "</CuDNN3DConvolutionComponent>" >>

\* C4: the tags a completed Write has emitted after the common header are
\* the tags of the format in the format's order; Read expects the tags of
\* the stream in the same order, each followed by a value of the type Write
\* wrote; every value of the stream follows a tag.
C4_TagOrder ==
  (last.op = "Write" /\ last.err = "") =>
    /\ SubSeq(TagsOf(stream), Len(WriteUpdatableCommon(written)), Len(TagsOf(stream)))
         = FormatTags
    /\ TagsOf(stream) = [k \in 1..Len(ReadSteps) |-> ReadSteps[k].tag]
    /\ KindsOf(stream) = [k \in 1..Len(ReadSteps) |-> ReadSteps[k].kind]
    /\ \A p \in 1..Len(stream) :
         stream[p].kind # "token" => (p > 1 /\ stream[p - 1].kind = "token")

\* Write has written an initialised component in full.
C4_Witness ==
  /\ last.op = "Write"
  /\ last.err = ""
  /\ written.filter_params_.rows > 0
  /\ Len(stream) > Len(FormatTags)

\* C5: Vectorize into a vector of NumParameters() entries fills it with the
\* filter rows one after the other at positions 0 .. rows*cols-1 and the bias
\* at the remaining positions; UnVectorize of that vector leaves the filter
\* and the bias as they were; each of the two fails its assertion when the
\* length of the vector differs from NumParameters(), and only then.
C5_VectorizeRoundTrip ==
  [][ LET c == comp[last'.id]
          m == c.filter_params_
      IN  /\ last'.op = "Vectorize" =>
               /\ (last'.err # "") = (last'.arg[1] # NumParameters(c))
               /\ last'.err = "" =>
                    /\ Len(last'.ret) = m.rows * m.cols + Len(c.bias_params_)
                    /\ \A r \in 1..m.rows : \A k \in 1..m.cols :
                         last'.ret[(r - 1) * m.cols + k] = m.data[r][k]
                    /\ \A k \in 1..Len(c.bias_params_) :
                         last'.ret[m.rows * m.cols + k] = c.bias_params_[k]
          /\ last'.op = "UnVectorize" =>
               /\ (last'.err # "") = (Len(last'.ret) # NumParameters(c))
               /\ (last'.err = "" /\ last'.other = "own" /\ last.id = last'.id) =>
                    /\ comp'[last'.id].filter_params_ = m
                    /\ comp'[last'.id].bias_params_ = c.bias_params_ ]_vars

\* A component whose filter has several rows and columns and whose bias
\* differs from the first filter entries has been restored from the vector
\* Vectorize filled.
C5_Witness ==
  /\ last.op = "UnVectorize"
  /\ last.other = "own"
  /\ last.err = ""
  /\ comp[last.id].filter_params_.rows > 1
  /\ comp[last.id].filter_params_.cols > 1
  /\ \E k \in 1..Len(comp[last.id].bias_params_) :
       comp[last.id].bias_params_[k] # last.ret[k]

\* A component is live once an initialisation has set its descriptors.
Live(c) == c.alive /\ c.filter_desc_.set /\ c.conv_desc_.set /\ c.bias_desc_.set

\* C6: in every state the process can go on from, a component whose
\* descriptors are set (by Init, Copy or Read, whatever Scale, Add, SetZero,
\* PerturbParams, UnVectorize or Update followed) has NumParameters() equal to
\* K*(C*X*Y*Z) + K for the dimensions [K, C, X, Y, Z] of its filter
\* descriptor.
C6_NumParametersFormula ==
  status = "ok" =>
    \A i \in CompIds :
      Live(comp[i]) =>
        LET d == comp[i].filter_desc_.dims
        IN  NumParameters(comp[i]) = d[1] * (d[2] * d[3] * d[4] * d[5]) + d[1]

\* Update has changed the parameters of a live component with several
\* filters, channels and kernel points.
C6_Witness ==
  /\ last.op = "Backprop"
  /\ last.err = ""
  /\ Live(comp[last.id])
  /\ comp[last.id].filter_desc_.dims[1] > 1
  /\ comp[last.id].filter_desc_.dims[2] > 1
  /\ comp[last.id].filter_desc_.dims[3] * comp[last.id].filter_desc_.dims[4] > 1
  /\ \E k \in 1..Len(comp[last.id].bias_params_) : comp[last.id].bias_params_[k] > 1

\* C7 as stated: Add(alpha, other) and DotProduct(other) with an other of
\* another component type each end in a fatal error.
C7_ForeignOtherIsFatal ==
  (last.op \in {"Add", "DotProduct"} /\ last.other = "foreign") =>
    (status = "fatal" /\ last.err # "")

\* C7, the half the code keeps: Add(alpha, other) with an other of another
\* component type fails its assertion and leaves every component as it was.
C7_AddForeignIsFatal ==
  [][ (last'.op = "Add" /\ last'.other = "foreign") =>
        /\ status' = "fatal"
        /\ last'.err = "KALDI_ASSERT: other != NULL"
        /\ comp' = comp ]_vars

\* Add has been called on a component with parameters with an other of
\* another component type.
C7_AddWitness ==
  /\ last.op = "Add"
  /\ last.other = "foreign"
  /\ comp[last.id].filter_params_.rows > 0

\* C8 as stated: Backprop with an update target of another component type
\* ends in a fatal error.
C8_ForeignTargetIsFatal ==
  (last.op = "Backprop" /\ last.other = "foreign") => status = "fatal"

\* C8, what the code does: Backprop with an update target of another
\* component type that breaks no other part of the contract returns
\* normally, and no component has changed.
C8_ForeignTargetIsSkipped ==
  [][ (last'.op = "Backprop" /\ last'.other = "foreign" /\ last'.err = "") =>
        (status' = "ok" /\ comp' = comp) ]_vars

\* Backprop of a live component with an update target of another component
\* type has returned normally.
C8_SkippedWitness ==
  /\ last.op = "Backprop"
  /\ last.other = "foreign"
  /\ last.err = ""
  /\ Live(comp[last.id])

\* C9: SetZero(true) leaves every filter and bias entry zero, the learning
\* rate 1 and the gradient flag set; SetZero(false) leaves every filter and
\* bias entry zero and the learning rate and the gradient flag as they were;
\* both leave the sizes of the parameters, the shape fields, the
\* vectorization order, the descriptors and every other component as they
\* were.
C9_SetZeroFrame ==
  [][ last'.op = "SetZero" =>
        LET i == last'.id
            c == comp[i]
            d == comp'[i]
        IN  /\ last'.err = ""
            /\ d.filter_params_.rows = c.filter_params_.rows
            /\ d.filter_params_.cols = c.filter_params_.cols
            /\ \A r \in 1..d.filter_params_.rows : \A k \in 1..d.filter_params_.cols :
                 d.filter_params_.data[r][k] = 0
            /\ Len(d.bias_params_) = Len(c.bias_params_)
            /\ \A k \in 1..Len(d.bias_params_) : d.bias_params_[k] = 0
            /\ IF last'.arg[1] = 1
               THEN d.learning_rate_ = 1 /\ d.is_gradient_
               ELSE d.learning_rate_ = c.learning_rate_ /\ d.is_gradient_ = c.is_gradient_
            /\ d = [c EXCEPT !.filter_params_ = d.filter_params_,
                             !.bias_params_ = d.bias_params_,
                             !.learning_rate_ = d.learning_rate_,
                             !.is_gradient_ = d.is_gradient_]
            /\ \A j \in CompIds \ {i} : comp'[j] = comp[j] ]_vars

\* SetZero(false) has zeroed a live component that is no gradient and whose
\* learning rate is not 1.
C9_Witness ==
  /\ last.op = "SetZero"
  /\ last.arg[1] = 0
  /\ Live(comp[last.id])
  /\ ~comp[last.id].is_gradient_
  /\ comp[last.id].learning_rate_ = MaxAlpha
  /\ comp[last.id].filter_params_.rows > 1
  /\ \A r \in 1..comp[last.id].filter_params_.rows :
       comp[last.id].filter_params_.data[r][1] = 0

\* The filter specification fits the layer shape: on every axis the dilated
\* kernel extent is at most the input extent plus twice the padding.
Fits(c) ==
  LET in == << c.input_x_dim_, c.input_y_dim_, c.input_z_dim_ >>
  IN  \A k \in 1..kConvolutionDimension_ :
        DilatedExtent(c.filter_desc_.dims[k + 2], c.conv_desc_.upscale[k])
          <= in[k] + 2 * c.conv_desc_.pad[k]

\* C10 as stated: an initialisation (Init or Read) that completes leaves a
\* component whose filter specification fits its layer shape.
C10_InitRejectsMismatch ==
  (last.op \in {"Init", "Read"} /\ last.err = "") => Fits(comp[last.id])

\* C10, what the code does: the mismatch an initialisation has let through
\* is found by the next OutputDim, Propagate or Backprop, which ends in a
\* fatal error.
C10_MismatchFoundLater ==
  (last.op \in {"OutputDim", "Propagate", "Backprop"} /\ Live(comp[last.id])
   /\ ~Fits(comp[last.id])) => status = "fatal"

\* OutputDim has failed on a component that an initialisation completed on.
C10_LaterWitness ==
  /\ last.op = "OutputDim"
  /\ status = "fatal"
  /\ Live(comp[last.id])
  /\ ~Fits(comp[last.id])

(***************************************************************************)
(* Shape inference: a layer of any of the shapes and filter specifications *)
(* of ShapeConfigs is initialised, asked for its output dimension, and     *)
(* given input and output matrices by Propagate and Backprop.              *)
(***************************************************************************)
ShapeInit ==
  \E cfg \in ShapeConfigs :
    Fresh(comp[1]) /\ DoInitRandom(1, cfg, 1, 1, 0)

ShapePropagate ==
  \E fault \in {"none", "out_cols", "out_stride"} :
    DoPropagate(1, MaxBatch, fault, 0)

ShapeBackprop ==
  \E fault \in {"none", "out_cols"} :
    DoBackprop(1, 1, "none", FALSE, MaxBatch, fault, 0)

NextShape ==
  \/ ShapeInit
  \/ GetOutputDim
  \/ ShapePropagate
  \/ ShapeBackprop

SpecShape == InitState /\ [][NextShape]_vars

\* What the primitive's shape inference returns for one example of the
\* component's input: <<batch, channels, x, y, z>>.
InferredDims(c) ==
  LET input_dims == << 1, c.input_num_filters_,
                       c.input_x_dim_, c.input_y_dim_, c.input_z_dim_ >>
      st == FillInputStrides(c.input_vectorization_, input_dims)
  IN  GetConvolutionNdForwardOutputDim(
        c.conv_desc_, SetTensorNdDescriptor(input_dims, st.val).val, c.filter_desc_)

\* C11: for every initialised layer whose filter specification fits its
\* shape, the shape inference succeeds with batch 1, as many channels as the
\* layer has filters and three extents that are all at least 1;
\* GetOutputDims returns those extents, OutputDim() is
\* num_filters * outX * outY * outZ, and a Propagate or Backprop on the layer
\* goes through exactly when the output rows it is given have that length
\* (columns and stride).
C11_OutputShape ==
  \A i \in CompIds :
    (Live(comp[i]) /\ Fits(comp[i])) =>
      LET c == comp[i]
          dims == InferredDims(c)
          od == GetOutputDims(c)
      IN  /\ dims.err = ""
          /\ dims.val[1] = 1
          /\ dims.val[2] = c.num_filters_
          /\ \A a \in 3..5 : dims.val[a] >= 1
          /\ od.err = ""
          /\ od.val = << dims.val[3], dims.val[4], dims.val[5] >>
          /\ OutputDim(c).err = ""
          /\ OutputDim(c).val = c.num_filters_ * od.val[1] * od.val[2] * od.val[3]
          /\ (last.id = i /\ last.op = "OutputDim") =>
                (status = "ok" /\ last.ret = << OutputDim(c).val >>)
          /\ (last.id = i /\ last.op \in {"Propagate", "Backprop"}
               /\ call.args.in_cols = InputDim(c)
               /\ call.args.in_stride = InputDim(c)) =>
                (status = "ok" <=> /\ call.args.out_cols = OutputDim(c).val
                                   /\ call.args.out_stride = OutputDim(c).val)

\* A Propagate of a batch of MaxBatch examples has gone through on a layer
\* of one input channel and MaxFilters filters with padding, a dilated kernel
\* and more than one output extent along each of X, Y and Z.
C11_Witness ==
  /\ last.op = "Propagate"
  /\ status = "ok"
  /\ Fits(comp[1])
  /\ call.args.rows = MaxBatch
  /\ comp[1].input_num_filters_ = 1
  /\ comp[1].num_filters_ = MaxFilters
  /\ comp[1].conv_desc_.pad[1] = MaxPad
  /\ comp[1].conv_desc_.upscale[1] = MaxUpscale
  /\ comp[1].filter_desc_.dims[3] = MaxFiltDim
  /\ \A a \in 1..kConvolutionDimension_ : GetOutputDims(comp[1]).val[a] > 1
  /\ call.args.out_cols = OutputDim(comp[1]).val
  /\ call.args.out_cols =
       MaxFilters * Product(GetOutputDims(comp[1]).val)

(***************************************************************************)
(* Configuration: a fresh component is initialised from a configuration    *)
(* line that is complete, lacks one required key, or names an order that   *)
(* is not supported; an initialised component is copied and written, and   *)
(* the stream, as written or with another InputVectorization integer, is   *)
(* read into a fresh component.                                            *)
(***************************************************************************)
\* The lines: all the required keys or all but one, with any of
\* "num-filters" and "matrix"; the order of the layer or one that is not
\* supported; neither deviation, a param-stddev of 1 or of -1, or a
\* bias-stddev of -1.
ConfigLines ==
  { ConfigLine(cfg, req \cup opt \cup dev.keys, order, unknown, dev.ps, dev.bs) :
      cfg \in ParamConfigs,
      req \in { { RequiredKeys[k] : k \in (1..Len(RequiredKeys)) \ {m} } :
                  m \in 0..Len(RequiredKeys) },
      opt \in SUBSET {"num-filters", "matrix"},
      order \in {"zyx", "yzx", "xyz"}, unknown \in BOOLEAN,
      dev \in { [keys |-> {}, ps |-> 0, bs |-> 0],
                [keys |-> {"param-stddev"}, ps |-> MaxStddev, bs |-> 0],
                [keys |-> {"param-stddev"}, ps |-> -1, bs |-> 0],
                [keys |-> {"bias-stddev"}, ps |-> 0, bs |-> -1] } }

InitFromConfig ==
  \E line \in ConfigLines, junk \in Undefined :
    LET r == InitFromConfigOp(comp[1], line, junk)
    IN  /\ Fresh(comp[1])
        /\ Running(1)
        /\ line.order \in {IF line.cfg.vec = kZyx THEN "zyx" ELSE "yzx", "xyz"}
        /\ steps < MaxMutations
        /\ comp' = [comp EXCEPT ![1] = r.val]
        /\ steps' = steps + 1
        /\ Done("InitFromConfig", 1, "", r.err, << line >>, <<>>)
        /\ UNCHANGED << stream, written, call, layout >>

\* The stream reaches the reader with an InputVectorization integer that this
\* component does not write.
Tamper ==
  \E v \in {-1, kYzx + 1} :
    /\ status = "ok"
    /\ stream # <<>>
    /\ \E k \in 2..Len(stream) : /\ stream[k - 1] = Token("<InputVectorization>")
                                 /\ Decode(stream[k]) \in Vectorizations
    /\ stream' = [k \in 1..Len(stream) |->
                    IF k > 1 /\ stream[k - 1] = Token("<InputVectorization>")
                    THEN WriteInt32(v) ELSE stream[k]]
    /\ UNCHANGED << comp, status, last, written, call, layout, steps >>

NextConfig ==
  \/ InitFromConfig
  \/ Construct
  \/ Copy
  \/ Write
  \/ Tamper
  \/ Read

SpecConfig == InitState /\ [][NextConfig]_vars

\* The line of the last InitFromConfig lacks one of the required keys.
LacksRequiredKey ==
  /\ last.op = "InitFromConfig"
  /\ last.arg[1].order \in {"zyx", "yzx"}
  /\ ~Got(last.arg[1], Len(RequiredKeys))

\* Init has not run on the component: its shape fields, parameters and
\* descriptors are those of the default constructor.
Untouched(c) ==
  /\ c.input_x_dim_ = 0 /\ c.input_y_dim_ = 0 /\ c.input_z_dim_ = 0
  /\ c.input_num_filters_ = 0 /\ c.num_filters_ = 0
  /\ c.filter_params_ = EmptyMat /\ c.bias_params_ = <<>>
  /\ ~c.filter_desc_.set /\ ~c.conv_desc_.set /\ ~c.bias_desc_.set

\* C12 as stated: a line that lacks a required key ends InitFromConfig in
\* the bad-initializer error, and Init has not run on the component.
C12_MissingKeyIsBadInitializer ==
  LacksRequiredKey =>
    /\ status = "fatal"
    /\ last.err = "KALDI_ERR: Bad initializer"
    /\ Untouched(comp[last.id])

\* C12, what the code does: a line that lacks a required key ends
\* InitFromConfig in a fatal error.  Without the matrix key the error is the
\* bad-initializer error and Init has not run.  With the matrix key Init has
\* run on the placeholders: the input extents are the values of the keys got
\* before the missing one and -1 from the missing one on, and the error is
\* the one Init met, not the bad-initializer error.
C12_MissingKeyIsFatal ==
  LacksRequiredKey =>
    LET line == last.arg[1]
        c == comp[last.id]
    IN  /\ status = "fatal"
        /\ "matrix" \notin line.keys =>
              (last.err = "KALDI_ERR: Bad initializer" /\ Untouched(c))
        /\ "matrix" \in line.keys =>
              /\ last.err # "KALDI_ERR: Bad initializer"
              /\ c.input_x_dim_ = Placeholder(line, 1, line.cfg.in[1])
              /\ c.input_y_dim_ = Placeholder(line, 2, line.cfg.in[2])
              /\ c.input_z_dim_ = Placeholder(line, 3, line.cfg.in[3])
              /\ c.num_filters_ = line.matrix.rows

\* A line with the matrix key and every required key but the last: Init has
\* stored the shape and the parameters and set the filter descriptor before
\* the convolution descriptor refused the stride -1.
C12_PartialWitness ==
  /\ LacksRequiredKey
  /\ "matrix" \in last.arg[1].keys
  /\ status = "fatal"
  /\ comp[last.id].input_x_dim_ > 0
  /\ comp[last.id].filter_params_ # EmptyMat
  /\ comp[last.id].filter_desc_.set
  /\ ~comp[last.id].conv_desc_.set

\* C13: while the process runs, the order every component stores is zyx (0)
\* or yzx (1), whichever of InitFromConfig, Init, Copy and Read has completed
\* on it; an InitFromConfig whose line names another order ends in the fatal
\* unknown-order error before Init has run, and a Read of a stream whose
\* InputVectorization integer is neither 0 nor 1 (Read stores the integer it
\* has read in the component) ends in a fatal error.
C13_OrderIsSupported ==
  /\ status = "ok" =>
        \A i \in CompIds : comp[i].alive => comp[i].input_vectorization_ \in Vectorizations
  /\ (last.op = "InitFromConfig" /\ last.arg[1].order \notin {"zyx", "yzx"}) =>
        /\ status = "fatal"
        /\ last.err = "KALDI_ERR: Unknown or unsupported input vectorization order"
        /\ Untouched(comp[last.id])
  /\ (last.op = "Read" /\ comp[last.id].input_vectorization_ \notin Vectorizations) =>
        /\ status = "fatal"
        /\ last.err = "Unknown or unsupported input vectorization order"

\* A Read of a stream that held the integer after yzx has ended in the fatal
\* error, all the items of the stream taken; the stream had been written by
\* a component in yzx order.
C13_Witness ==
  /\ last.op = "Read"
  /\ status = "fatal"
  /\ stream = <<>>
  /\ comp[last.id].input_vectorization_ = kYzx + 1
  /\ written.input_vectorization_ = kYzx
  /\ last.err = "Unknown or unsupported input vectorization order"

\* What the copy constructor has to reproduce of the original o in the
\* copy c.
SameAsOriginal(c, o) ==
  /\ c.filter_params_ = o.filter_params_
  /\ c.bias_params_ = o.bias_params_
  /\ c.input_x_dim_ = o.input_x_dim_
  /\ c.input_y_dim_ = o.input_y_dim_
  /\ c.input_z_dim_ = o.input_z_dim_
  /\ c.input_num_filters_ = o.input_num_filters_
  /\ c.num_filters_ = o.num_filters_
  /\ c.input_vectorization_ = o.input_vectorization_
  /\ c.is_gradient_ = o.is_gradient_
  /\ c.forward_algo_ = o.forward_algo_
  /\ c.backward_filter_algo_ = o.backward_filter_algo_
  /\ c.backward_data_algo_ = o.backward_data_algo_
  /\ c.filter_desc_ = o.filter_desc_
  /\ c.bias_desc_ = o.bias_desc_
  /\ c.conv_desc_ = o.conv_desc_

\* The operations that change the parameters of a component.
Mutators == {"Scale", "Add", "SetZero", "PerturbParams", "UnVectorize", "Backprop"}

\* The component an operation changes: the update target of Backprop, the
\* component the operation was called on otherwise.
Mutated(l) == IF l.op = "Backprop" /\ l.other = "same" THEN 3 - l.id ELSE l.id

\* C14: Copy leaves the original as it was and gives the copy the filter and
\* bias values, shape fields, order, gradient flag, algorithms and descriptor
\* contents of the original, with one descriptor handle of each kind created
\* for the copy, whatever the original holds; a Scale, Add, SetZero,
\* PerturbParams, UnVectorize or Update of one component leaves the
\* parameters of the other as they were; and the workspace pointers of the
\* two are never the same buffer unless both are null.
C14_CopyIsIndependent ==
  [][ /\ last'.op = "Copy" =>
            /\ SameAsOriginal(comp'[2], comp[1])
            /\ comp'[1] = comp[1]
            /\ comp'[2].handles_ = [filter |-> 1, bias |-> 1, conv |-> 1]
      /\ last'.op \in Mutators =>
            \A k \in CompIds \ {Mutated(last')} :
              /\ comp'[k].filter_params_ = comp[k].filter_params_
              /\ comp'[k].bias_params_ = comp[k].bias_params_
      /\ (comp'[1].alive /\ comp'[2].alive) =>
            (comp'[1].work_space_ = comp'[2].work_space_ => comp'[1].work_space_ = 0)
    ]_vars

\* A copy was made of an initialised component in yzx order, and one of the
\* two was then changed: the parameters of the two differ, and the copy holds
\* fewer filter descriptor handles than the original.
C14_Witness ==
  /\ last.op \in Mutators
  /\ status = "ok"
  /\ Live(comp[1]) /\ Live(comp[2])
  /\ comp[1].handles_.filter > comp[2].handles_.filter
  /\ comp[1].input_vectorization_ = kYzx
  /\ comp[2].input_vectorization_ = kYzx
  /\ comp[1].filter_params_ # comp[2].filter_params_
  /\ comp[1].bias_params_ # comp[2].bias_params_
  /\ SameDim(comp[1].filter_params_, comp[2].filter_params_)

(***************************************************************************)
(* The workspace: Propagate and Backprop on a library that tells, for the  *)
(* layer and each of the forward, backward-data and backward-filter        *)
(* algorithms, the workspace size the primitive requires                   *)
(* (cudnnGetConvolution...WorkspaceSize), from 0 to MaxWorkspace.  A       *)
(* primitive handed a smaller workspace refuses the call, and the refusal  *)
(* is fatal.  Everywhere else in this module the library requires none.    *)
(***************************************************************************)
\* Propagate(in, out) of one example, out zeroed: the forward primitive is
\* the last thing Propagate asks of the library before it adds the bias.
WorkspacePropagate ==
  \E i \in CompIds,
     needs \in [{"forward", "backward_data", "backward_filter"} -> 0..MaxWorkspace] :
    LET in == CallerIn(comp[i], 1, "none", 0)
        out == MatSetZero(CallerOut(comp[i], 1, "none", 0))
        r == PropagateOp(comp[i], in, out)
        refused == r.err = "" /\ comp[i].work_space_size_ < needs["forward"]
    IN  /\ Running(i)
        /\ steps < MaxMutations
        /\ steps' = steps + 1
        /\ call' = [NoCall EXCEPT !.in_desc = r.val.in_desc,
                                  !.out_desc = r.val.out_desc,
                                  !.out = IF refused THEN out ELSE r.val.out,
                                  !.args = Args(in, out),
                                  !.prims = r.val.prims,
                                  !.needs = needs]
        /\ Done("Propagate", i, "",
                IF refused THEN "CUDNN_STATUS_BAD_PARAM" ELSE r.err, <<1>>, <<>>)
        /\ UNCHANGED << comp, stream, written, layout >>

\* Backprop(in_value, out_deriv, to_update_in, in_deriv) of one example, with
\* no target, the component itself or the component of the other slot, on a
\* library of the requirements needs.  The backward-data primitive runs with
\* the workspace of the component, the backward-filter primitive of Update
\* after it with that of the target: a refused backward-data leaves the
\* derivative and the target as they were, a refused backward-filter the
\* target.
WorkspaceBackprop ==
  \E i \in CompIds, j \in CompIds, target \in {"none", "self", "same"},
     has_deriv \in BOOLEAN,
     needs \in [{"forward", "backward_data", "backward_filter"} -> 0..MaxWorkspace] :
    /\ Running(i)
    /\ Running(j)
    /\ IF target = "same" THEN i # j ELSE i = j
    /\ steps < MaxMutations
    /\ steps' = steps + 1
    /\ \E in_deriv \in {IF has_deriv THEN CallerIn(comp[i], 1, "none", 2) ELSE NoMat} :
       \E r \in {BackpropOp(comp[i], CallerIn(comp[i], 1, "none", 0),
                            CallerOut(comp[i], 1, "none", 1), target # "none", comp[j],
                            has_deriv, in_deriv)} :
       \E data_refused \in {IF r.val.prims = <<>> THEN FALSE
                            ELSE /\ r.val.prims[1].op = "backward_data"
                                 /\ comp[i].work_space_size_ < needs["backward_data"]} :
       \E refused \in {IF data_refused THEN TRUE
                       ELSE /\ r.err = ""
                            /\ target # "none"
                            /\ comp[j].work_space_size_ < needs["backward_filter"]} :
         /\ comp' = [comp EXCEPT ![j] = IF refused THEN comp[j] ELSE r.val.t]
         /\ call' = [NoCall EXCEPT !.in_deriv = IF data_refused THEN in_deriv
                                                ELSE r.val.in_deriv,
                                   !.old_deriv = in_deriv,
                                   !.args = Args(CallerIn(comp[i], 1, "none", 0),
                                                 CallerOut(comp[i], 1, "none", 1)),
                                   !.prims = IF data_refused THEN << r.val.prims[1] >>
                                             ELSE r.val.prims,
                                   !.needs = needs]
         /\ Done("Backprop", i, target,
                 IF refused THEN "CUDNN_STATUS_BAD_PARAM" ELSE r.err,
                 << 1, IF has_deriv THEN 1 ELSE 0, 0 >>, <<>>)
         /\ UNCHANGED << stream, written, layout >>

NextWorkspace ==
  \/ EngineInit
  \/ Copy
  \/ WorkspacePropagate
  \/ WorkspaceBackprop

SpecWorkspace == InitState /\ [][NextWorkspace]_vars

\* The largest of the three requirements of the last call.
MaxRequirement ==
  CHOOSE m \in 0..MaxWorkspace :
    /\ \E op \in DOMAIN call.needs : call.needs[op] = m
    /\ \A op \in DOMAIN call.needs : call.needs[op] <= m

\* C15 as stated: every convolution primitive (forward, backward-data,
\* backward-filter) is invoked with a workspace size that is at least what
\* the library requires of that operation and equal to the largest of the
\* three requirements, with a buffer when that size is not 0, and the
\* primitives a call invokes on one component are given the same buffer and
\* size.
C15_WorkspaceMeetsRequirements ==
  \A k \in DOMAIN call.prims :
    /\ call.prims[k].size >= call.needs[call.prims[k].op]
    /\ call.prims[k].size = MaxRequirement
    /\ call.prims[k].size > 0 => call.prims[k].work_space # 0
    /\ last.other # "same" =>
         \A l \in DOMAIN call.prims :
           /\ call.prims[l].work_space = call.prims[k].work_space
           /\ call.prims[l].size = call.prims[k].size

\* C15, what the code does: the workspace is never sized.  Every component
\* has the null workspace pointer and the size 0 in every state, every
\* convolution primitive (forward, backward-data, backward-filter) is invoked
\* with the null pointer and the size 0 whatever the library requires, and a
\* call that invokes a primitive of which the library requires a workspace
\* ends in the fatal error of the refused primitive.
C15_WorkspaceIsNeverSized ==
  /\ \A i \in CompIds :
        comp[i].alive => (comp[i].work_space_ = 0 /\ comp[i].work_space_size_ = 0)
  /\ \A k \in DOMAIN call.prims :
        call.prims[k].work_space = 0 /\ call.prims[k].size = 0
  /\ (\E k \in DOMAIN call.prims : call.needs[call.prims[k].op] > 0) =>
        /\ status = "fatal"
        /\ last.err = "CUDNN_STATUS_BAD_PARAM"
  /\ (last.op \in {"Propagate", "Backprop"} /\ status = "ok") =>
        \A k \in DOMAIN call.prims : call.needs[call.prims[k].op] = 0

\* A Backprop on a copy has accumulated the input derivative through a
\* backward-data primitive that requires no workspace, and has ended in the
\* fatal error of the backward-filter primitive, which requires one and was
\* handed the null pointer and the size 0; the parameters are as they were.
C15_Witness ==
  /\ last.op = "Backprop"
  /\ last.id = 2
  /\ last.other = "self"
  /\ status = "fatal"
  /\ Len(call.prims) = 2
  /\ call.prims[1].op = "backward_data"
  /\ call.prims[2].op = "backward_filter"
  /\ call.needs["backward_data"] = 0
  /\ call.needs["backward_filter"] = MaxWorkspace
  /\ call.prims[2].size = 0
  /\ call.in_deriv # call.old_deriv
  /\ comp[2].filter_params_ = comp[1].filter_params_

(***************************************************************************)
(* Lives: components are constructed or copied, initialised by Init and by *)
(* Read up to MaxInits times, and destroyed.                               *)
(***************************************************************************)
\* Read(is) into any component, initialised or not.
LifeRead == \E i \in CompIds : DoRead(i, MaxInits)

\* The destructor of the component of slot i.
Destroy ==
  \E i \in CompIds :
    LET r == DestroyOp(comp[i])
    IN  /\ Running(i)
        /\ comp' = [comp EXCEPT ![i] = r.c]
        /\ Done("Destroy", i, "", "", <<>>, r.freed)
        /\ UNCHANGED << stream, written, call, layout, steps >>

NextLife ==
  \/ InitRandom
  \/ Construct
  \/ Copy
  \/ Write
  \/ LifeRead
  \/ Destroy

SpecLife == InitState /\ [][NextLife]_vars

\* C16 as stated: when the destructor returns, no descriptor handle created
\* for the component is left, and no free was attempted of a workspace that
\* was never allocated.
C16_AllHandlesReleased ==
  last.op = "Destroy" =>
    /\ comp[last.id].handles_ = [filter |-> 0, bias |-> 0, conv |-> 0]
    /\ last.ret = <<>>

\* C16, what the code does: a constructor creates one descriptor handle of
\* each kind for the component, each Init or Read that completes creates one
\* more filter descriptor handle, and the destructor destroys one handle of
\* each kind and attempts no free of the workspace, which was never
\* allocated.  When the destructor returns, no bias or convolution
\* descriptor handle is left, and as many filter descriptor handles are left
\* as Init and Read have completed on the component.
C16_FilterHandleLeaks ==
  [][ LET before == comp[last'.id].handles_
          after == comp'[last'.id].handles_
      IN  /\ last'.op \in {"construct", "Copy"} =>
                after = [filter |-> 1, bias |-> 1, conv |-> 1]
          /\ (last'.op \in {"Init", "Read"} /\ last'.err = "") =>
                after = [before EXCEPT !.filter = @ + 1]
          /\ last'.op = "Write" => after = before
          /\ last'.op = "Destroy" =>
                /\ after = [filter |-> before.filter - 1, bias |-> 0, conv |-> 0]
                /\ after.filter = 0 <=> before.filter = 1
                /\ last'.ret = <<>>
    ]_vars

\* A component that Init and then Read have initialised has been destroyed:
\* two filter descriptor handles are left.
C16_Witness ==
  /\ last.op = "Destroy"
  /\ last.id = 1
  /\ comp[1].filter_desc_.set
  /\ comp[1].handles_.filter = MaxInits
  /\ comp[1].handles_.bias = 0

\* The matrices of the last call break the contract of Propagate on
\* component c: the input column count is not the input dimension, a row
\* stride is not the column count, or the output column count is not the
\* output dimension.
BreaksContract(c, args) ==
  \/ args.in_cols # InputDim(c)
  \/ args.in_stride # args.in_cols
  \/ args.out_stride # args.out_cols
  \/ OutputDim(c).err = "" /\ args.out_cols # OutputDim(c).val

\* C17: a Propagate on an initialised component whose matrices break the
\* contract ends in a failed assertion; no convolution primitive has been
\* invoked, the output matrix is as the caller passed it (zeroed, of the
\* caller's sizes), and no component has changed.
C17_PropagateRejectsBadShapes ==
  [][ (last'.op = "Propagate" /\ Live(comp[last'.id])
       /\ BreaksContract(comp[last'.id], call'.args)) =>
        /\ status' = "fatal"
        /\ last'.err \in {"KALDI_ASSERT: in.NumCols() == in.Stride()",
                          "KALDI_ASSERT: out->NumCols() == out->Stride()",
                          "KALDI_ASSERT: input dim == in.Stride()",
                          "KALDI_ASSERT: out->Stride() == output dim"}
        /\ call'.prims = <<>>
        /\ call'.out.rows = call'.args.out_rows
        /\ call'.out.cols = call'.args.out_cols
        /\ call'.out.stride = call'.args.out_stride
        /\ \A r \in 1..call'.out.rows : \A k \in 1..call'.out.cols :
              call'.out.data[r][k] = 0
        /\ comp' = comp
    ]_vars

\* A Propagate whose output rows are one column longer than the output
\* dimension has failed the assertion on the output stride, on a component
\* that takes well-formed matrices.
C17_Witness ==
  /\ last.op = "Propagate"
  /\ status = "fatal"
  /\ Live(comp[last.id])
  /\ OutputDim(comp[last.id]).err = ""
  /\ call.args.in_cols = InputDim(comp[last.id])
  /\ call.args.out_cols = call.args.out_stride
  /\ call.args.out_cols = OutputDim(comp[last.id]).val + 1
  /\ last.err = "KALDI_ASSERT: out->Stride() == output dim"

(***************************************************************************)
(* Training: Backprop is called again and again on a layer that has been   *)
(* initialised, alone or with a copy of it that accumulates the gradient   *)
(* at learning rate 1.                                                     *)
(***************************************************************************)
\* The layers of ParamConfigs whose kernel fits the input.
TrainConfigs == { cfg \in ParamConfigs : cfg.in[1] = MaxInputDim }

\* The states training starts from: the first component initialised by
\* Init, the second slot empty, a copy of the first component, or a copy
\* that SetZero(true) has made a gradient, of learning rate 1.
TrainInit ==
  /\ \E cfg \in TrainConfigs, seed \in Seeds, junk \in Undefined :
       LET c == InitRandomOp(InitLearningRatesFromConfig(DefaultComponent, cfg),
                             cfg, [num |-> 1, den |-> 1], 1, seed, junk).val
       IN  comp \in { [i \in CompIds |-> IF i = 1 THEN c ELSE d] :
                        d \in { NoComponent, CopyOp(c, 2),
                                SetZeroOp(CopyOp(c, 2), TRUE) } }
  /\ status = "ok"
  /\ last = Last("Init", 1, "random", "", <<>>, <<>>)
  /\ stream = <<>>
  /\ written = NoComponent
  /\ call = NoCall
  /\ layout = NoLayout
  /\ steps = 0

TrainBackprop ==
  \E i \in CompIds, j \in CompIds, target \in {"none", "self", "same"},
     has_deriv \in BOOLEAN, seed \in Seeds :
    DoBackprop(i, j, target, has_deriv, 1, "none", seed)

NextTrain == TrainBackprop

SpecTrain == TrainInit /\ [][NextTrain]_vars

\* The matrices of the Backprop that the record l describes, on component c.
InValueOf(c, l) == CallerIn(c, l.arg[1], "none", l.arg[3])
OutDerivOf(c, l) == CallerOut(c, l.arg[1], "none", l.arg[3] + 1)

\* The slot of the update target of the Backprop that l describes.
TargetOf(l) == IF l.other = "same" THEN 3 - l.id ELSE l.id

\* The backward-data result of the Backprop that l describes on component
\* c: what the call leaves in an input derivative that was zero.
BackwardDataOf(c, l, like) ==
  BackpropOp(c, InValueOf(c, l), OutDerivOf(c, l), FALSE, c, TRUE,
             MatSetZero(like)).val.in_deriv

\* C18: a Backprop that completes with an input derivative leaves in each
\* of its entries the value it had plus the backward-data result; one that
\* completes without an input derivative has not invoked backward-data, and
\* has given a supplied target the Update it gives it when the derivative is
\* supplied; one without an update target has changed no component.
C18_InputDerivIsAccumulated ==
  [][ (last'.op = "Backprop" /\ last'.err = "") =>
        LET c == comp[last'.id]
            t == comp[TargetOf(last')]
            old == call'.old_deriv
            bd == BackwardDataOf(c, last', old)
        IN  /\ last'.arg[2] = 1 =>
                  /\ \E k \in DOMAIN call'.prims : call'.prims[k].op = "backward_data"
                  /\ SameDim(call'.in_deriv, old)
                  /\ \A r \in 1..old.rows : \A k \in 1..old.cols :
                        call'.in_deriv.data[r][k] = old.data[r][k] + bd.data[r][k]
            /\ last'.arg[2] = 0 =>
                  /\ \A k \in DOMAIN call'.prims : call'.prims[k].op # "backward_data"
                  /\ call'.in_deriv = NoMat
                  /\ last'.other # "none" =>
                        /\ \E k \in DOMAIN call'.prims : call'.prims[k].op = "backward_filter"
                        /\ comp'[TargetOf(last')] =
                             BackpropOp(c, InValueOf(c, last'), OutDerivOf(c, last'), TRUE, t,
                                        TRUE, CallerIn(c, 1, "none", 2)).val.t
            /\ last'.other = "none" => comp' = comp
    ]_vars

\* A Backprop has completed with an input derivative that was not zero
\* before the call and has an entry that the call has changed.
C18_Witness ==
  /\ last.op = "Backprop"
  /\ status = "ok"
  /\ last.arg[2] = 1
  /\ \E r \in 1..call.old_deriv.rows : \E k \in 1..call.old_deriv.cols :
        /\ call.old_deriv.data[r][k] # 0
        /\ call.in_deriv.data[r][k] # call.old_deriv.data[r][k]
        /\ call.in_deriv.data[r][k] # 0

\* The filter and bias gradients of the Backprop that l describes on
\* component c, computed with the descriptors of the target t: what Update
\* at learning rate 1 leaves in parameters that were zero.
GradientOf(c, l, t) ==
  BackpropOp(c, InValueOf(c, l), OutDerivOf(c, l), TRUE,
             SetActualLearningRate(SetZeroOp(t, FALSE), 1), FALSE, NoMat).val.t

\* C19: a Backprop that completes with an update target leaves in each
\* filter and bias entry of the target the value it had plus the target's
\* learning rate times the filter or bias gradient of the call, the
\* gradients being computed with the target's descriptors, and leaves the
\* rest of the target as it was.  Over k successive calls on one target the
\* entries therefore grow by the sum of the k scaled gradients.
C19_UpdateAccumulates ==
  [][ (last'.op = "Backprop" /\ last'.err = "" /\ last'.other # "none") =>
        LET c == comp[last'.id]
            t == comp[TargetOf(last')]
            new == comp'[TargetOf(last')]
            g == GradientOf(c, last', t)
        IN  /\ SameDim(new.filter_params_, t.filter_params_)
            /\ \A r \in 1..t.filter_params_.rows : \A k \in 1..t.filter_params_.cols :
                  new.filter_params_.data[r][k] =
                    t.filter_params_.data[r][k]
                    + t.learning_rate_ * g.filter_params_.data[r][k]
            /\ Len(new.bias_params_) = Len(t.bias_params_)
            /\ \A k \in 1..Len(t.bias_params_) :
                  new.bias_params_[k] =
                    t.bias_params_[k] + t.learning_rate_ * g.bias_params_[k]
            /\ new = [t EXCEPT !.filter_params_ = new.filter_params_,
                               !.bias_params_ = new.bias_params_]
    ]_vars

\* Two Backprop calls have completed, the second on the original, whose
\* learning rate is not 1, as its own target: its parameters are not zero
\* and the gradient of the call is not zero.
C19_Witness ==
  /\ last.op = "Backprop"
  /\ status = "ok"
  /\ last.other = "self"
  /\ last.id = 1
  /\ steps = MaxMutations
  /\ comp[1].learning_rate_ = MaxAlpha
  /\ \E r \in 1..comp[1].filter_params_.rows : \E k \in 1..comp[1].filter_params_.cols :
        /\ comp[1].filter_params_.data[r][k] # 0
        /\ GradientOf(comp[1], last, comp[1]).filter_params_.data[r][k] # 0
  /\ \E k \in 1..Len(comp[1].bias_params_) :
        GradientOf(comp[1], last, comp[1]).bias_params_[k] # 0

\* C20: a Backprop that completes with an input derivative on a component
\* that is its own update target leaves in the input derivative what the
\* same call leaves in it with no update target: the derivative is computed
\* from the filter as it was when Backprop was entered.
C20_SelfUpdateUsesEntryFilter ==
  [][ (last'.op = "Backprop" /\ last'.err = "" /\ last'.other = "self"
       /\ last'.arg[2] = 1) =>
        LET c == comp[last'.id]
        IN  call'.in_deriv =
              BackpropOp(c, InValueOf(c, last'), OutDerivOf(c, last'), FALSE, c,
                         TRUE, call'.old_deriv).val.in_deriv
    ]_vars

\* A self-updating Backprop has completed with an input derivative, and the
\* filter it has left would have given another input derivative.
C20_Witness ==
  /\ last.op = "Backprop"
  /\ status = "ok"
  /\ last.other = "self"
  /\ last.arg[2] = 1
  /\ call.in_deriv #
       BackpropOp(comp[last.id], InValueOf(comp[last.id], last),
                  OutDerivOf(comp[last.id], last), FALSE, comp[last.id],
                  TRUE, call.old_deriv).val.in_deriv

====
